---- MODULE Spec2Model ----
(***************************************************************************)
(* VRTOS kernel: task control blocks with their intrusive next/prev and    *)
(* next_waiting links, the preemptive static-priority ready and delayed    *)
(* lists, the kernel transition helpers, the tick and context-switch       *)
(* handlers, and the mutex / semaphore / queue primitives built on them.   *)
(*                                                                         *)
(* One action is one critical section of the C code (interrupts masked     *)
(* from rtos_port_enter_critical to the outermost rtos_port_exit_critical) *)
(* or one handler (SysTick, PendSV).  Code that runs between two critical  *)
(* sections of the same call is a separate action, so a tick or a pended   *)
(* context switch may come in between, as on the hardware.                 *)
(***************************************************************************)
EXTENDS Integers, Naturals, Sequences, FiniteSets, TLC

(* ------------------------------ constants ------------------------------ *)

NULL == 0

RTOS_MAX_TASK_PRIORITIES == 8
RTOS_IDLE_TASK_PRIORITY == 0
RTOS_NO_WAIT == 0
RTOS_MAX_WAIT == -1
RTOS_SEM_NO_WAIT == 0
RTOS_SEM_MAX_WAIT == -1
RTOS_MAX_DELAY == -1
MUTEX_MAX_RECURSION == 255
PIP_MAX_DEPTH == 16
RTOS_DEFAULT_TASK_STACK_SIZE == 1024
RTOS_MINIMUM_TASK_STACK_SIZE == 128
RTOS_TOTAL_HEAP_SIZE == 16384
StackSizeWrap == 65536

(* TCB pool slots used by the model; slot 1 is the idle task (created first
   by rtos_init, so it is the first slot of g_task_pool). *)
Idle == 1
Tasks == {1, 2, 3, 4}
UserTasks == Tasks \ {Idle}
TaskOrNull == Tasks \cup {NULL}

(* Synchronization objects of the application, identified by address. *)
Mutexes == {1, 2}
SemAddr == 3
QueueAddr == 4

(* Bounds of the exploration. *)
TickWrap == 2
MaxDelay == 1
MaxItems == 4
QueueLength == 2
MaxSignals == 3

Priorities == 0 .. (RTOS_MAX_TASK_PRIORITIES - 1)

(* Software timers of the application (rtos_timer_handle_t values). *)
Timers == {1, 2}

VARIABLES
    tcb,               \* g_task_pool: one record per slot
    ready_lists,       \* g_preemptive_sp_data.ready_lists[priority] (head)
    ready_priorities,  \* g_preemptive_sp_data.ready_priorities (set of bits)
    delayed_list,      \* g_preemptive_sp_data.delayed_list (head)
    g_cooperative_data,   \* cooperative.c: ready_list and delayed_list (heads)
    g_round_robin_data,   \* round_robin.h: the round-robin private data
    g_scheduler_instance, \* scheduler.c: type and initialized
    rtos_scheduler_type,    \* RTOS_SCHEDULER_TYPE of the build (config.h)
    timer,             \* the rtos_timer_t objects, one record per handle
    g_active_timers,   \* timer_list.c: head of the active-timer list
    g_heap_memory,     \* memory.c: address at which the linker put the pool
    g_heap_index,      \* memory.c: bytes of the pool handed out so far
    tick_count,        \* g_kernel.tick_count
    tick_wrap,         \* number of values of rtos_tick_t (2^32 in the C code)
    current_task,      \* g_kernel.current_task
    kstate,            \* g_kernel.state
    pendsv,            \* SCB->ICSR.PENDSVSET
    hung,              \* the CPU spins in a kernel loop with interrupts masked
    mutex,             \* rtos_mutex_t per address
    sem,               \* rtos_semaphore_t
    queue,             \* rtos_queue_t
    ctx,               \* per task: where its code stands inside an API call
    last,              \* the return of a synchronization call made by the last step
    hist,              \* ghost history: payloads accepted / delivered, counts
    ip                 \* per task: its place in the application's program

vars == <<tcb, ready_lists, ready_priorities, delayed_list,
          g_cooperative_data, g_round_robin_data, g_scheduler_instance, rtos_scheduler_type,
          timer, g_active_timers, g_heap_memory, g_heap_index, tick_count,
          tick_wrap, current_task, kstate, pendsv, hung, mutex, sem, queue, ctx, last, hist,
          ip>>

(* The kernel state as one record, so that the C functions compose. *)
K == [tcb |-> tcb, ready_lists |-> ready_lists,
      ready_priorities |-> ready_priorities, delayed_list |-> delayed_list,
      g_cooperative_data |-> g_cooperative_data,
      g_round_robin_data |-> g_round_robin_data,
      g_scheduler_instance |-> g_scheduler_instance,
      rtos_scheduler_type |-> rtos_scheduler_type,
      timer |-> timer, g_active_timers |-> g_active_timers,
      g_heap_memory |-> g_heap_memory, g_heap_index |-> g_heap_index,
      tick_count |-> tick_count, tick_wrap |-> tick_wrap,
      current_task |-> current_task,
      kstate |-> kstate, pendsv |-> pendsv, hung |-> hung, yreq |-> FALSE]

(* The kernel record is evaluated once, then stored. *)
Commit(k) ==
    \E v \in {k} :
        /\ tcb' = v.tcb
        /\ ready_lists' = v.ready_lists
        /\ ready_priorities' = v.ready_priorities
        /\ delayed_list' = v.delayed_list
        /\ g_cooperative_data' = v.g_cooperative_data
        /\ g_round_robin_data' = v.g_round_robin_data
        /\ g_scheduler_instance' = v.g_scheduler_instance
        /\ rtos_scheduler_type' = v.rtos_scheduler_type
        /\ timer' = v.timer
        /\ g_active_timers' = v.g_active_timers
        /\ g_heap_memory' = v.g_heap_memory
        /\ g_heap_index' = v.g_heap_index
        /\ tick_count' = v.tick_count
        /\ tick_wrap' = v.tick_wrap
        /\ current_task' = v.current_task
        /\ kstate' = v.kstate
        /\ pendsv' = v.pendsv
        /\ hung' = v.hung

(* The same for an initial state. *)
Start(k) ==
    /\ tcb = k.tcb
    /\ ready_lists = k.ready_lists
    /\ ready_priorities = k.ready_priorities
    /\ delayed_list = k.delayed_list
    /\ g_cooperative_data = k.g_cooperative_data
    /\ g_round_robin_data = k.g_round_robin_data
    /\ g_scheduler_instance = k.g_scheduler_instance
    /\ rtos_scheduler_type = k.rtos_scheduler_type
    /\ timer = k.timer
    /\ g_active_timers = k.g_active_timers
    /\ g_heap_memory = k.g_heap_memory
    /\ g_heap_index = k.g_heap_index
    /\ tick_count = k.tick_count
    /\ tick_wrap = k.tick_wrap
    /\ current_task = k.current_task
    /\ kstate = k.kstate
    /\ pendsv = k.pendsv
    /\ hung = k.hung

(* A kernel function after another one: once the CPU spins, nothing runs. *)
Then(k, F(_)) == IF k.hung THEN k ELSE F(k)

EmptyTcb ==
    [used |-> FALSE, state |-> "READY", priority |-> 0, base_priority |-> 0,
     delay_until |-> 0, next |-> NULL, prev |-> NULL, next_waiting |-> NULL,
     blocked_on |-> NULL, blocked_on_type |-> "NONE",
     stack_base |-> NULL, stack_top |-> NULL, stack_size |-> 0,
     stack_pointer |-> NULL, stack_block |-> NULL]

(* ------------------- preemptive_sp.c: list management ------------------ *)

HANG == -1

(* while (current->next != NULL) current = current->next;  A list of more
   hops than there are TCBs is cyclic, and the loop never ends. *)
RECURSIVE FindTail(_, _, _)
FindTail(t, cur, fuel) ==
    IF t[cur].next = NULL THEN cur
    ELSE IF fuel = 0 THEN HANG
    ELSE FindTail(t, t[cur].next, fuel - 1)

preemptive_sp_add_to_ready_list_internal(k, task) ==
    IF task = NULL \/ k.tcb[task].priority >= RTOS_MAX_TASK_PRIORITIES THEN k
    ELSE
      LET priority == k.tcb[task].priority
          t1 == [k.tcb EXCEPT ![task].next = NULL, ![task].prev = NULL]
          head == k.ready_lists[priority]
      IN IF head = NULL
         THEN [k EXCEPT !.tcb = t1,
                        !.ready_lists[priority] = task,
                        !.ready_priorities = @ \cup {priority}]
         ELSE LET tail == FindTail(t1, head, Cardinality(Tasks))
              IN IF tail = HANG
                 THEN [k EXCEPT !.tcb = t1, !.hung = TRUE]
                 ELSE [k EXCEPT !.tcb = [t1 EXCEPT ![tail].next = task,
                                                  ![task].prev = tail]]

preemptive_sp_remove_from_ready_list_internal(k, task) ==
    IF task = NULL \/ k.tcb[task].priority >= RTOS_MAX_TASK_PRIORITIES THEN k
    ELSE
      LET priority == k.tcb[task].priority
          t0 == k.tcb
          \* if (task->prev != NULL) task->prev->next = task->next;
          \* else *list_head = task->next;
          t1 == IF t0[task].prev # NULL
                THEN [t0 EXCEPT ![t0[task].prev].next = t0[task].next]
                ELSE t0
          rl1 == IF t0[task].prev # NULL
                 THEN k.ready_lists
                 ELSE [k.ready_lists EXCEPT ![priority] = t0[task].next]
          \* if (task->next != NULL) task->next->prev = task->prev;
          t2 == IF t1[task].next # NULL
                THEN [t1 EXCEPT ![t1[task].next].prev = t1[task].prev]
                ELSE t1
          \* if (*list_head == NULL) ready_priorities &= ~(1U << priority);
          rp1 == IF rl1[priority] = NULL
                 THEN k.ready_priorities \ {priority}
                 ELSE k.ready_priorities
      IN [k EXCEPT !.tcb = [t2 EXCEPT ![task].next = NULL, ![task].prev = NULL],
                   !.ready_lists = rl1,
                   !.ready_priorities = rp1]

(* while (current != NULL && current->delay_until <= task->delay_until):
   returns <<prev, current>>, or HANG when the list is cyclic and no entry
   ends the loop. *)
RECURSIVE FindDelayedSlot(_, _, _, _, _)
FindDelayedSlot(t, prev, current, until, fuel) ==
    IF current = NULL \/ t[current].delay_until > until THEN <<prev, current>>
    ELSE IF fuel = 0 THEN <<HANG, HANG>>
    ELSE FindDelayedSlot(t, current, t[current].next, until, fuel - 1)

preemptive_sp_add_to_delayed_list_internal(k, task, delay_ticks) ==
    IF task = NULL THEN k
    ELSE
      LET until == (k.tick_count + delay_ticks) % k.tick_wrap
          t1 == [k.tcb EXCEPT ![task].delay_until = until,
                              ![task].next = NULL, ![task].prev = NULL]
      IN IF k.delayed_list = NULL
         THEN [k EXCEPT !.tcb = t1, !.delayed_list = task]
         ELSE LET slot == FindDelayedSlot(t1, NULL, k.delayed_list, until,
                                          Cardinality(Tasks))
                  prev == slot[1]
                  current == slot[2]
                  t2 == [t1 EXCEPT ![task].next = current, ![task].prev = prev]
                  t3 == IF prev = NULL THEN t2
                        ELSE [t2 EXCEPT ![prev].next = task]
                  t4 == IF current # NULL
                        THEN [t3 EXCEPT ![current].prev = task]
                        ELSE t3
              IN IF prev = HANG
                 THEN [k EXCEPT !.tcb = t1, !.hung = TRUE]
                 ELSE [k EXCEPT !.tcb = t4,
                                !.delayed_list =
                                    IF prev = NULL THEN task ELSE @]

preemptive_sp_remove_from_delayed_list_internal(k, task) ==
    IF task = NULL THEN k
    ELSE
      LET t0 == k.tcb
          \* if (task->prev != NULL) task->prev->next = task->next;
          \* else if (*list_head == task) *list_head = task->next;
          t1 == IF t0[task].prev # NULL
                THEN [t0 EXCEPT ![t0[task].prev].next = t0[task].next]
                ELSE t0
          dl1 == IF t0[task].prev = NULL /\ k.delayed_list = task
                 THEN t0[task].next
                 ELSE k.delayed_list
          t2 == IF t1[task].next # NULL
                THEN [t1 EXCEPT ![t1[task].next].prev = t1[task].prev]
                ELSE t1
      IN [k EXCEPT !.tcb = [t2 EXCEPT ![task].next = NULL, ![task].prev = NULL],
                   !.delayed_list = dl1]

(* The while loop of update_delayed_tasks: `seen` holds the loop states
   already passed; meeting one again means the loop never ends. *)
RECURSIVE UpdateDelayedLoop(_, _, _)
UpdateDelayedLoop(k, task, seen) ==
    IF task = NULL THEN k
    ELSE IF <<k, task>> \in seen THEN [k EXCEPT !.hung = TRUE]
    ELSE IF k.tick_count >= k.tcb[task].delay_until
    THEN LET next_task == k.tcb[task].next
             k1 == preemptive_sp_remove_from_delayed_list_internal(k, task)
             k2 == [k1 EXCEPT !.tcb[task].state = "READY"]
             k3 == preemptive_sp_add_to_ready_list_internal(k2, task)
         IN IF k3.hung THEN k3
            ELSE UpdateDelayedLoop(k3, next_task, seen \cup {<<k, task>>})
    ELSE k

preemptive_sp_update_delayed_tasks_internal(k) ==
    UpdateDelayedLoop(k, k.delayed_list, {})

SetMax(S) == CHOOSE x \in S : \A y \in S : y <= x

preemptive_sp_get_highest_priority_ready(k) ==
    IF k.ready_priorities = {} THEN NULL
    ELSE k.ready_lists[SetMax(k.ready_priorities)]

preemptive_sp_should_preempt(k, new_task) ==
    /\ new_task # NULL
    /\ k.current_task # NULL
    /\ new_task # k.current_task
    /\ k.tcb[new_task].priority > k.tcb[k.current_task].priority

(* -------------------- cooperative.c: list management ------------------- *)

(* One FIFO ready list: the task is appended after the tail. *)
cooperative_add_to_ready_list_internal(k, task) ==
    IF task = NULL THEN k
    ELSE
      LET t1 == [k.tcb EXCEPT ![task].next = NULL, ![task].prev = NULL]
          head == k.g_cooperative_data.ready_list
      IN IF head = NULL
         THEN [k EXCEPT !.tcb = t1, !.g_cooperative_data.ready_list = task]
         ELSE LET current == FindTail(t1, head, Cardinality(Tasks))
              IN IF current = HANG
                 THEN [k EXCEPT !.tcb = t1, !.hung = TRUE]
                 ELSE [k EXCEPT !.tcb = [t1 EXCEPT ![current].next = task,
                                                   ![task].prev = current]]

cooperative_remove_from_ready_list_internal(k, task) ==
    IF task = NULL \/ k.g_cooperative_data.ready_list = NULL THEN k
    ELSE
      LET t0 == k.tcb
          \* if (task->prev != NULL) task->prev->next = task->next;
          \* else ready_list = task->next;
          t1 == IF t0[task].prev # NULL
                THEN [t0 EXCEPT ![t0[task].prev].next = t0[task].next]
                ELSE t0
          rl1 == IF t0[task].prev # NULL
                 THEN k.g_cooperative_data.ready_list
                 ELSE t0[task].next
          t2 == IF t1[task].next # NULL
                THEN [t1 EXCEPT ![t1[task].next].prev = t1[task].prev]
                ELSE t1
      IN [k EXCEPT !.tcb = [t2 EXCEPT ![task].next = NULL, ![task].prev = NULL],
                   !.g_cooperative_data.ready_list = rl1]

cooperative_add_to_delayed_list_internal(k, task, delay_ticks) ==
    IF task = NULL THEN k
    ELSE
      LET until == (k.tick_count + delay_ticks) % k.tick_wrap
          head == k.g_cooperative_data.delayed_list
          t1 == [k.tcb EXCEPT ![task].delay_until = until,
                              ![task].next = NULL, ![task].prev = NULL]
      IN IF head = NULL
         THEN [k EXCEPT !.tcb = t1, !.g_cooperative_data.delayed_list = task]
         ELSE LET slot == FindDelayedSlot(t1, NULL, head, until,
                                          Cardinality(Tasks))
                  prev == slot[1]
                  current == slot[2]
                  t2 == [t1 EXCEPT ![task].next = current, ![task].prev = prev]
                  t3 == IF prev = NULL THEN t2
                        ELSE [t2 EXCEPT ![prev].next = task]
                  t4 == IF current # NULL
                        THEN [t3 EXCEPT ![current].prev = task]
                        ELSE t3
              IN IF prev = HANG
                 THEN [k EXCEPT !.tcb = t1, !.hung = TRUE]
                 ELSE [k EXCEPT !.tcb = t4,
                                !.g_cooperative_data.delayed_list =
                                    IF prev = NULL THEN task ELSE @]

(* Unlike the preemptive one, the head is overwritten whenever the task has
   no predecessor, whether or not the task is the head. *)
cooperative_remove_from_delayed_list_internal(k, task) ==
    IF task = NULL \/ k.g_cooperative_data.delayed_list = NULL THEN k
    ELSE
      LET t0 == k.tcb
          t1 == IF t0[task].prev # NULL
                THEN [t0 EXCEPT ![t0[task].prev].next = t0[task].next]
                ELSE t0
          dl1 == IF t0[task].prev # NULL
                 THEN k.g_cooperative_data.delayed_list
                 ELSE t0[task].next
          t2 == IF t1[task].next # NULL
                THEN [t1 EXCEPT ![t1[task].next].prev = t1[task].prev]
                ELSE t1
      IN [k EXCEPT !.tcb = [t2 EXCEPT ![task].next = NULL, ![task].prev = NULL],
                   !.g_cooperative_data.delayed_list = dl1]

RECURSIVE CoopUpdateDelayedLoop(_, _, _)
CoopUpdateDelayedLoop(k, task, seen) ==
    IF task = NULL THEN k
    ELSE IF <<k, task>> \in seen THEN [k EXCEPT !.hung = TRUE]
    ELSE IF k.tick_count >= k.tcb[task].delay_until
    THEN LET next_task == k.tcb[task].next
             k1 == cooperative_remove_from_delayed_list_internal(k, task)
             k2 == [k1 EXCEPT !.tcb[task].state = "READY"]
             k3 == cooperative_add_to_ready_list_internal(k2, task)
         IN IF k3.hung THEN k3
            ELSE CoopUpdateDelayedLoop(k3, next_task, seen \cup {<<k, task>>})
    ELSE k

cooperative_update_delayed_tasks_internal(k) ==
    CoopUpdateDelayedLoop(k, k.g_cooperative_data.delayed_list, {})

cooperative_get_next_ready(k) == k.g_cooperative_data.ready_list

cooperative_should_preempt_ByPriority(k, new_task) ==
    preemptive_sp_should_preempt(k, new_task)

(* Tasks run until they yield or block. *)
cooperative_should_preempt(k, new_task) == FALSE

(* A task that is still READY moves to the end of the ready list. *)
cooperative_task_completed(k, completed_task) ==
    IF k.tcb[completed_task].state # "READY" THEN k
    ELSE LET k1 == cooperative_remove_from_ready_list_internal(k, completed_task)
         IN cooperative_add_to_ready_list_internal(k1, completed_task)

(* ------------------- round_robin.c: list management -------------------- *)

RTOS_TIME_SLICE_TICKS == 20

(* uint8_t ready_count, delayed_count. *)
CountWrap == 256

(* One FIFO with a tail pointer: the task is linked behind
   ready_list_tail.  A store through a NULL tail pointer faults. *)
round_robin_add_to_ready_list_internal(k, task) ==
    IF task = NULL THEN k
    ELSE
      LET rr == k.g_round_robin_data
          t1 == [k.tcb EXCEPT ![task].next = NULL, ![task].prev = NULL]
          count == (rr.ready_count + 1) % CountWrap
      IN IF rr.ready_list = NULL
         THEN [k EXCEPT !.tcb = t1,
                        !.g_round_robin_data.ready_list = task,
                        !.g_round_robin_data.ready_list_tail = task,
                        !.g_round_robin_data.ready_count = count]
         ELSE IF rr.ready_list_tail = NULL
         THEN [k EXCEPT !.tcb = t1, !.hung = TRUE]
         ELSE LET t2 == [t1 EXCEPT ![rr.ready_list_tail].next = task]
              IN [k EXCEPT !.tcb = [t2 EXCEPT ![task].prev = rr.ready_list_tail],
                           !.g_round_robin_data.ready_list_tail = task,
                           !.g_round_robin_data.ready_count = count]

round_robin_remove_from_ready_list_internal(k, task) ==
    IF task = NULL \/ k.g_round_robin_data.ready_list = NULL THEN k
    ELSE
      LET rr == k.g_round_robin_data
          t0 == k.tcb
          \* if (task->prev != NULL) task->prev->next = task->next;
          \* else ready_list = task->next;
          t1 == IF t0[task].prev # NULL
                THEN [t0 EXCEPT ![t0[task].prev].next = t0[task].next]
                ELSE t0
          rl1 == IF t0[task].prev # NULL THEN rr.ready_list
                 ELSE t0[task].next
          \* if (task->next != NULL) task->next->prev = task->prev;
          \* else ready_list_tail = task->prev;
          t2 == IF t1[task].next # NULL
                THEN [t1 EXCEPT ![t1[task].next].prev = t1[task].prev]
                ELSE t1
          tail1 == IF t1[task].next # NULL THEN rr.ready_list_tail
                   ELSE t1[task].prev
      IN [k EXCEPT !.tcb = [t2 EXCEPT ![task].next = NULL, ![task].prev = NULL],
                   !.g_round_robin_data.ready_list = rl1,
                   !.g_round_robin_data.ready_list_tail = tail1,
                   !.g_round_robin_data.ready_count =
                       IF @ > 0 THEN @ - 1 ELSE @]

round_robin_add_to_delayed_list_internal(k, task, delay_ticks) ==
    IF task = NULL THEN k
    ELSE
      LET until == (k.tick_count + delay_ticks) % k.tick_wrap
          head == k.g_round_robin_data.delayed_list
          t1 == [k.tcb EXCEPT ![task].delay_until = until,
                              ![task].next = NULL, ![task].prev = NULL]
      IN IF head = NULL
         THEN [k EXCEPT !.tcb = t1,
                        !.g_round_robin_data.delayed_list = task,
                        !.g_round_robin_data.delayed_count = 1]
         ELSE LET slot == FindDelayedSlot(t1, NULL, head, until,
                                          Cardinality(Tasks))
                  prev == slot[1]
                  current == slot[2]
                  t2 == [t1 EXCEPT ![task].next = current, ![task].prev = prev]
                  t3 == IF prev = NULL THEN t2
                        ELSE [t2 EXCEPT ![prev].next = task]
                  t4 == IF current # NULL
                        THEN [t3 EXCEPT ![current].prev = task]
                        ELSE t3
              IN IF prev = HANG
                 THEN [k EXCEPT !.tcb = t1, !.hung = TRUE]
                 ELSE [k EXCEPT !.tcb = t4,
                                !.g_round_robin_data.delayed_list =
                                    IF prev = NULL THEN task ELSE @,
                                !.g_round_robin_data.delayed_count =
                                    (@ + 1) % CountWrap]

(* As in cooperative.c, the head is overwritten whenever the task has no
   predecessor, whether or not the task is the head. *)
round_robin_remove_from_delayed_list_internal(k, task) ==
    IF task = NULL \/ k.g_round_robin_data.delayed_list = NULL THEN k
    ELSE
      LET t0 == k.tcb
          t1 == IF t0[task].prev # NULL
                THEN [t0 EXCEPT ![t0[task].prev].next = t0[task].next]
                ELSE t0
          dl1 == IF t0[task].prev # NULL
                 THEN k.g_round_robin_data.delayed_list
                 ELSE t0[task].next
          t2 == IF t1[task].next # NULL
                THEN [t1 EXCEPT ![t1[task].next].prev = t1[task].prev]
                ELSE t1
      IN [k EXCEPT !.tcb = [t2 EXCEPT ![task].next = NULL, ![task].prev = NULL],
                   !.g_round_robin_data.delayed_list = dl1,
                   !.g_round_robin_data.delayed_count =
                       IF @ > 0 THEN @ - 1 ELSE @]

RECURSIVE RoundRobinUpdateDelayedLoop(_, _, _)
RoundRobinUpdateDelayedLoop(k, task, seen) ==
    IF task = NULL THEN k
    ELSE IF <<k, task>> \in seen THEN [k EXCEPT !.hung = TRUE]
    ELSE IF k.tick_count >= k.tcb[task].delay_until
    THEN LET next_task == k.tcb[task].next
             k1 == round_robin_remove_from_delayed_list_internal(k, task)
             k2 == [k1 EXCEPT !.tcb[task].state = "READY"]
             k3 == round_robin_add_to_ready_list_internal(k2, task)
         IN IF k3.hung THEN k3
            ELSE RoundRobinUpdateDelayedLoop(k3, next_task,
                                             seen \cup {<<k, task>>})
    ELSE k

round_robin_update_delayed_tasks_internal(k) ==
    RoundRobinUpdateDelayedLoop(k, k.g_round_robin_data.delayed_list, {})

round_robin_get_next_ready(k) == k.g_round_robin_data.ready_list

round_robin_init(k) ==
    [k EXCEPT !.g_round_robin_data =
        [ready_list |-> NULL, ready_list_tail |-> NULL, delayed_list |-> NULL,
         current_task |-> NULL, slice_remaining |-> RTOS_TIME_SLICE_TICKS,
         ready_count |-> 0, delayed_count |-> 0]]

(* round_robin_get_next_task: the value returned is
   round_robin_get_next_ready(k); this is the state it leaves. *)
round_robin_get_next_task(k) ==
    IF round_robin_get_next_ready(k) # NULL
    THEN [k EXCEPT !.g_round_robin_data.current_task =
                       round_robin_get_next_ready(k)]
    ELSE k

(* round_robin_should_preempt: the state it leaves (k) and the value it
   returns (ret).  Every call counts the slice down. *)
round_robin_should_preempt(k, new_task) ==
    LET k1 == [k EXCEPT !.g_round_robin_data.slice_remaining =
                            IF @ > 0 THEN @ - 1 ELSE @]
    IN [k |-> k1,
        ret |-> /\ k1.g_round_robin_data.slice_remaining = 0
                /\ k1.g_round_robin_data.ready_count > 1]

(* A task that is still READY moves to the end of the ready list, and only
   then is the slice set again. *)
round_robin_task_completed(k, completed_task) ==
    IF k.tcb[completed_task].state # "READY" THEN k
    ELSE LET k1 == round_robin_remove_from_ready_list_internal(k, completed_task)
             Rearm(kk) ==
                 [kk EXCEPT !.g_round_robin_data.slice_remaining =
                                RTOS_TIME_SLICE_TICKS,
                            !.g_round_robin_data.current_task = NULL]
         IN Then(round_robin_add_to_ready_list_internal(k1, completed_task),
                 Rearm)

(* ------------------------- scheduler.c dispatch ------------------------ *)
(* The manager forwards every call to the vtable that rtos_scheduler_init
   found in g_scheduler_registry for the build's RTOS_SCHEDULER_TYPE; an
   uninitialised manager does nothing. *)

RTOS_SCHEDULER_TYPE == "PREEMPTIVE_SP"

(* for (i...) if (g_scheduler_registry[i].type == scheduler_type) return
   g_scheduler_registry[i].vtable; return NULL;  The vtable is named by its
   type; round_robin_scheduler is not in the registry. *)
g_scheduler_registry == {"PREEMPTIVE_SP", "COOPERATIVE"}

rtos_scheduler_find_interface(scheduler_type) ==
    IF scheduler_type \in g_scheduler_registry THEN scheduler_type ELSE "NULL"

(* rtos_scheduler_init: RTOS_SUCCESS iff the result is initialised. *)
rtos_scheduler_init(k, scheduler_type) ==
    IF k.g_scheduler_instance.initialized
       \/ rtos_scheduler_find_interface(scheduler_type) = "NULL"
    THEN k
    ELSE LET k1 == [k EXCEPT !.g_scheduler_instance =
                         [type |-> scheduler_type, initialized |-> TRUE]]
         IN IF scheduler_type = "COOPERATIVE"
            THEN \* cooperative_init
                 [k1 EXCEPT !.g_cooperative_data =
                                [ready_list |-> NULL, delayed_list |-> NULL]]
            ELSE \* preemptive_sp_init
                 [k1 EXCEPT !.ready_lists = [p \in Priorities |-> NULL],
                            !.ready_priorities = {},
                            !.delayed_list = NULL]

Cooperative(k) == k.g_scheduler_instance.type = "COOPERATIVE"

RoundRobin(k) == k.g_scheduler_instance.type = "ROUND_ROBIN"

Ignored(k, task) == ~k.g_scheduler_instance.initialized \/ task = NULL

rtos_scheduler_add_to_ready_list(k, task) ==
    IF Ignored(k, task) THEN k
    ELSE IF Cooperative(k) THEN cooperative_add_to_ready_list_internal(k, task)
    ELSE IF RoundRobin(k) THEN round_robin_add_to_ready_list_internal(k, task)
    ELSE preemptive_sp_add_to_ready_list_internal(k, task)

rtos_scheduler_remove_from_ready_list(k, task) ==
    IF Ignored(k, task) THEN k
    ELSE IF Cooperative(k)
    THEN cooperative_remove_from_ready_list_internal(k, task)
    ELSE IF RoundRobin(k)
    THEN round_robin_remove_from_ready_list_internal(k, task)
    ELSE preemptive_sp_remove_from_ready_list_internal(k, task)

rtos_scheduler_add_to_delayed_list(k, task, delay_ticks) ==
    IF Ignored(k, task) THEN k
    ELSE IF Cooperative(k)
    THEN cooperative_add_to_delayed_list_internal(k, task, delay_ticks)
    ELSE IF RoundRobin(k)
    THEN round_robin_add_to_delayed_list_internal(k, task, delay_ticks)
    ELSE preemptive_sp_add_to_delayed_list_internal(k, task, delay_ticks)

rtos_scheduler_remove_from_delayed_list(k, task) ==
    IF Ignored(k, task) THEN k
    ELSE IF Cooperative(k)
    THEN cooperative_remove_from_delayed_list_internal(k, task)
    ELSE IF RoundRobin(k)
    THEN round_robin_remove_from_delayed_list_internal(k, task)
    ELSE preemptive_sp_remove_from_delayed_list_internal(k, task)

rtos_scheduler_update_delayed_tasks(k) ==
    IF ~k.g_scheduler_instance.initialized THEN k
    ELSE IF Cooperative(k) THEN cooperative_update_delayed_tasks_internal(k)
    ELSE IF RoundRobin(k) THEN round_robin_update_delayed_tasks_internal(k)
    ELSE preemptive_sp_update_delayed_tasks_internal(k)

rtos_scheduler_get_next_task(k) ==
    IF ~k.g_scheduler_instance.initialized THEN NULL
    ELSE IF Cooperative(k) THEN cooperative_get_next_ready(k)
    ELSE IF RoundRobin(k) THEN round_robin_get_next_ready(k)
    ELSE preemptive_sp_get_highest_priority_ready(k)

(* The state a call of rtos_scheduler_get_next_task leaves: only the
   round-robin vtable writes. *)
AfterGetNextTask(k) ==
    IF k.g_scheduler_instance.initialized /\ RoundRobin(k)
    THEN round_robin_get_next_task(k)
    ELSE k

(* preemptive_sp_task_completed does nothing. *)
rtos_scheduler_task_completed(k, completed_task) ==
    IF Ignored(k, completed_task) \/ k.hung THEN k
    ELSE IF Cooperative(k) THEN cooperative_task_completed(k, completed_task)
    ELSE IF RoundRobin(k) THEN round_robin_task_completed(k, completed_task)
    ELSE k

rtos_scheduler_should_preempt(k, new_task) ==
    /\ k.g_scheduler_instance.initialized
    /\ IF Cooperative(k) THEN cooperative_should_preempt(k, new_task)
       ELSE IF RoundRobin(k) THEN round_robin_should_preempt(k, new_task).ret
       ELSE preemptive_sp_should_preempt(k, new_task)

(* The state a call of rtos_scheduler_should_preempt leaves: only the
   round-robin vtable writes. *)
AfterShouldPreempt(k, new_task) ==
    IF k.g_scheduler_instance.initialized /\ RoundRobin(k)
    THEN round_robin_should_preempt(k, new_task).k
    ELSE k

(* ------------------------------- task.c -------------------------------- *)

SetMin(S) == CHOOSE x \in S : \A y \in S : x <= y

(* First pool slot in use whose (current) priority is the idle priority. *)
rtos_task_get_idle_task(k) ==
    LET c == {i \in Tasks : k.tcb[i].used
                            /\ k.tcb[i].priority = RTOS_IDLE_TASK_PRIORITY}
    IN IF c = {} THEN NULL ELSE SetMin(c)

(* First free pool slot. *)
rtos_task_allocate_tcb(k) ==
    LET c == {i \in Tasks : ~k.tcb[i].used}
    IN IF c = {} THEN NULL ELSE SetMin(c)

(* utils.h: ALIGN_UP and ALIGN_DOWN for a power of two. *)
ALIGN_UP(value, alignment) ==
    ((value + (alignment - 1)) \div alignment) * alignment

ALIGN_DOWN(value, alignment) == (value \div alignment) * alignment

(* memory.c.  g_heap_memory is an array of uint8_t, so the C language asks no
   alignment of it: the linker puts it on a multiple of 8 or only of 4.
   Addresses are byte addresses; NULL is 0. *)
HeapPlacements == {RTOS_TOTAL_HEAP_SIZE, RTOS_TOTAL_HEAP_SIZE + 4}

(* rtos_malloc: the bump allocator.  ptr is NULL when the pool is used up. *)
rtos_malloc(k, size) ==
    LET aligned == ALIGN_UP(size, 8)
    IN IF k.g_heap_index + aligned > RTOS_TOTAL_HEAP_SIZE
       THEN [k |-> k, ptr |-> NULL]
       ELSE [k |-> [k EXCEPT !.g_heap_index = @ + aligned],
             ptr |-> k.g_heap_memory + k.g_heap_index]

(* rtos_task_allocate_stack: returns stack_block + size, aligned down to 8.
   stack_block (what rtos_malloc returned) is kept for the observer. *)
rtos_task_allocate_stack(k, size) ==
    LET m == rtos_malloc(k, size)
    IN IF m.ptr = NULL
       THEN [k |-> m.k, stack_memory |-> NULL, stack_block |-> NULL]
       ELSE [k |-> m.k, stack_memory |-> ALIGN_DOWN(m.ptr + size, 8),
             stack_block |-> m.ptr]

(* port.c, rtos_port_init_task_stack: aligns the top down and pushes the
   initial frame (xPSR, PC, LR, R12, R3-R0, EXC_RETURN, R11-R4), one
   *--stack_ptr per word; returns the resulting stack pointer. *)
PORT_STACK_ALIGNMENT == 8
InitialFrameWords == 17

rtos_port_init_task_stack(stack_top) ==
    ALIGN_DOWN(stack_top, PORT_STACK_ALIGNMENT) - 4 * InitialFrameWords

(* rtos_task_create, lines 85-98: the stack size actually used.
   rtos_stack_size_t is uint16_t, so the aligned value is cut to 16 bits. *)
TaskStackSize(stack_size) ==
    LET s1 == IF stack_size = 0 THEN RTOS_DEFAULT_TASK_STACK_SIZE
              ELSE stack_size
        s2 == IF s1 < RTOS_MINIMUM_TASK_STACK_SIZE
              THEN RTOS_MINIMUM_TASK_STACK_SIZE ELSE s1
    IN ALIGN_UP(s2, 8) % StackSizeWrap

(* The status rtos_task_create returns. *)
rtos_task_create_status(k, stack_size, priority) ==
    IF priority >= RTOS_MAX_TASK_PRIORITIES THEN "INVALID_PARAM"
    ELSE IF rtos_task_allocate_tcb(k) = NULL THEN "NO_MEMORY"
    ELSE IF rtos_task_allocate_stack(k, TaskStackSize(stack_size)).stack_memory
            = NULL
    THEN "NO_MEMORY"
    ELSE "SUCCESS"

(* rtos_task_create: the canary is written at *stack_memory, which becomes
   stack_base and stack_top; the new TCB is READY and is appended to the
   ready list; no preemption check is made.  A call that fails changes
   nothing (the TCB slot is given back). *)
rtos_task_create(k, stack_size, priority) ==
    LET new_task == rtos_task_allocate_tcb(k)
        size == TaskStackSize(stack_size)
        a == rtos_task_allocate_stack(k, size)
    IN IF rtos_task_create_status(k, stack_size, priority) # "SUCCESS" THEN k
       ELSE rtos_scheduler_add_to_ready_list(
              [a.k EXCEPT !.tcb[new_task] =
                  [EmptyTcb EXCEPT !.used = TRUE, !.state = "READY",
                                   !.priority = priority,
                                   !.base_priority = priority,
                                   !.stack_base = a.stack_memory,
                                   !.stack_size = size,
                                   !.stack_top = a.stack_memory,
                                   !.stack_pointer =
                                       rtos_port_init_task_stack(a.stack_memory),
                                   !.stack_block = a.stack_block]],
              new_task)

(* --------------------------- timer_list.c, timer.c --------------------- *)

(* A callback is application code: what it does is a field of the timer that
   was given to rtos_timer_create.  It returns at once ("none") or calls one
   timer API function on a timer (the expiring one or another one). *)
NoCallback == [op |-> "none", handle |-> NULL, period_ticks |-> 0]

(* struct rtos_timer after rtos_timer_create.  armed and before are not
   fields of the structure: armed records the expiry_time that the last
   rtos_timer_start or rtos_timer_change_period computed; before holds the
   active list as rtos_timer_start found it, as long as nothing but an
   rtos_timer_stop of the same timer has happened to the timers since (it
   is empty otherwise). *)
rtos_timer_create(period_ticks, mode, callback) ==
    [period |-> period_ticks, expiry_time |-> 0, mode |-> mode,
     callback |-> callback, active |-> FALSE, next |-> NULL, armed |-> 0,
     before |-> {}]

EmptyTimer == rtos_timer_create(0, "ONE_SHOT", NoCallback)

(* (int32_t)(a - b) in an rtos_tick_t of w values. *)
SignedDiff(a, b, w) ==
    LET d == (a - b) % w IN IF 2 * d >= w THEN d - w ELSE d

time_before(t1, t2, w) == SignedDiff(t1, t2, w) < 0

(* The timers met by following `next` from cur, for at most fuel hops. *)
RECURSIVE TimerWalk(_, _, _)
TimerWalk(T, cur, fuel) ==
    IF cur = NULL \/ fuel = 0 THEN <<>>
    ELSE <<cur>> \o TimerWalk(T, T[cur].next, fuel - 1)

(* Forgets what the last rtos_timer_start found, except for timer tm. *)
ClearBeforeExcept(k, tm) ==
    [k EXCEPT !.timer = [i \in Timers |->
                           IF i = tm THEN k.timer[i]
                           ELSE [k.timer[i] EXCEPT !.before = {}]]]

ClearBefore(k) == ClearBeforeExcept(k, NULL)

(* The walk of timer_insert_active_list: the node after which the timer
   goes.  A cyclic list in which no node is later than the timer never
   ends the loop. *)
RECURSIVE TimerInsertWalk(_, _, _, _, _)
TimerInsertWalk(T, current, expiry, w, fuel) ==
    IF T[current].next = NULL THEN current
    ELSE IF time_before(expiry, T[T[current].next].expiry_time, w) THEN current
    ELSE IF fuel = 0 THEN HANG
    ELSE TimerInsertWalk(T, T[current].next, expiry, w, fuel - 1)

timer_insert_active_list(k, tm) ==
    LET head == k.g_active_timers
        w == k.tick_wrap
    IN IF head = NULL
       THEN [k EXCEPT !.g_active_timers = tm, !.timer[tm].next = NULL]
       ELSE IF time_before(k.timer[tm].expiry_time, k.timer[head].expiry_time, w)
       THEN [k EXCEPT !.timer[tm].next = head, !.g_active_timers = tm]
       ELSE LET current == TimerInsertWalk(k.timer, head,
                               k.timer[tm].expiry_time, w, Cardinality(Timers))
            IN IF current = HANG THEN [k EXCEPT !.hung = TRUE]
               ELSE LET k1 == [k EXCEPT !.timer[tm].next = k.timer[current].next]
                    IN [k1 EXCEPT !.timer[current].next = tm]

(* The walk of timer_remove_active_list: the node before the timer, or the
   last node. *)
RECURSIVE TimerRemoveWalk(_, _, _, _)
TimerRemoveWalk(T, current, tm, fuel) ==
    IF T[current].next = NULL \/ T[current].next = tm THEN current
    ELSE IF fuel = 0 THEN HANG
    ELSE TimerRemoveWalk(T, T[current].next, tm, fuel - 1)

(* A removal that unlinks the timer together with everything behind it. *)
timer_remove_active_list_DropsRest(k, tm) ==
    IF k.g_active_timers = NULL THEN k
    ELSE IF k.g_active_timers = tm
    THEN LET k1 == [k EXCEPT !.g_active_timers = NULL]
         IN [k1 EXCEPT !.timer[tm].next = NULL]
    ELSE LET current == TimerRemoveWalk(k.timer, k.g_active_timers, tm,
                                        Cardinality(Timers))
         IN IF current = HANG THEN [k EXCEPT !.hung = TRUE]
            ELSE IF k.timer[current].next = tm
            THEN LET k1 == [k EXCEPT !.timer[current].next = NULL]
                 IN [k1 EXCEPT !.timer[tm].next = NULL]
            ELSE k

timer_remove_active_list(k, tm) ==
    IF k.g_active_timers = NULL THEN k
    ELSE IF k.g_active_timers = tm
    THEN LET k1 == [k EXCEPT !.g_active_timers = k.timer[tm].next]
         IN [k1 EXCEPT !.timer[tm].next = NULL]
    ELSE LET current == TimerRemoveWalk(k.timer, k.g_active_timers, tm,
                                        Cardinality(Timers))
         IN IF current = HANG THEN [k EXCEPT !.hung = TRUE]
            ELSE IF k.timer[current].next = tm
            THEN LET k1 == [k EXCEPT !.timer[current].next = k.timer[tm].next]
                 IN [k1 EXCEPT !.timer[tm].next = NULL]
            ELSE k

(* rtos_timer_start: an active timer is removed first, then re-armed. *)
rtos_timer_start(k, tm) ==
    LET k0 == ClearBefore(k)
        k1 == IF k.timer[tm].active THEN timer_remove_active_list(k0, tm)
              ELSE k0
        Arm(kk) ==
            LET expiry == (kk.tick_count + kk.timer[tm].period) % kk.tick_wrap
            IN timer_insert_active_list(
                   [kk EXCEPT !.timer[tm].expiry_time = expiry,
                              !.timer[tm].armed = expiry,
                              !.timer[tm].before =
                                  {TimerWalk(k.timer, k.g_active_timers,
                                             Cardinality(Timers) + 1)},
                              !.timer[tm].active = TRUE], tm)
    IN Then(k1, Arm)

rtos_timer_stop(k, tm) ==
    IF k.timer[tm].active
    THEN LET Off(kk) == [kk EXCEPT !.timer[tm].active = FALSE]
         IN Then(timer_remove_active_list(ClearBeforeExcept(k, tm), tm), Off)
    ELSE ClearBefore(k)

(* rtos_timer_change_period: period 0 is rejected; only an active timer is
   re-armed. *)
rtos_timer_change_period(k, tm, new_period) ==
    IF new_period = 0 THEN ClearBefore(k)
    ELSE
      LET k1 == [ClearBefore(k) EXCEPT !.timer[tm].period = new_period]
      IN IF k1.timer[tm].active
         THEN LET Arm(kk) ==
                      LET expiry == (kk.tick_count + new_period) % kk.tick_wrap
                      IN timer_insert_active_list(
                             [kk EXCEPT !.timer[tm].expiry_time = expiry,
                                        !.timer[tm].armed = expiry], tm)
              IN Then(timer_remove_active_list(k1, tm), Arm)
         ELSE k1

(* expired->callback(expired, expired->parameter) *)
TimerCallback(k, expired) ==
    LET cb == k.timer[expired].callback
    IN CASE cb.op = "start" -> rtos_timer_start(k, cb.handle)
         [] cb.op = "stop" -> rtos_timer_stop(k, cb.handle)
         [] cb.op = "change_period" ->
                rtos_timer_change_period(k, cb.handle, cb.period_ticks)
         [] OTHER -> k

(* do { expiry_time += period; } while ((int32_t)(expiry_time - now) <= 0);
   After as many additions as rtos_tick_t has values the sums repeat: the
   loop never ends. *)
RECURSIVE TimerReload(_, _, _, _, _)
TimerReload(expiry_time, period, now, w, fuel) ==
    LET e == (expiry_time + period) % w
    IN IF SignedDiff(e, now, w) <= 0
       THEN IF fuel = 0 THEN HANG
            ELSE TimerReload(e, period, now, w, fuel - 1)
       ELSE e

(* The while loop of rtos_timer_tick.  The state at the top of the loop
   decides the whole iteration, so a state seen twice means the loop never
   ends. *)
RECURSIVE TimerTickLoop(_, _, _)
TimerTickLoop(k, current_tick, seen) ==
    IF k.g_active_timers = NULL THEN k
    ELSE IF k \in seen THEN [k EXCEPT !.hung = TRUE]
    ELSE IF SignedDiff(k.timer[k.g_active_timers].expiry_time, current_tick,
                       k.tick_wrap) <= 0
    THEN LET expired == k.g_active_timers
             k1 == [k EXCEPT !.g_active_timers = k.timer[expired].next,
                             !.timer[expired].next = NULL]
             k2 == TimerCallback(k1, expired)
             Rearm(kk) ==
                 IF kk.timer[expired].mode = "AUTO_RELOAD"
                 THEN LET e == TimerReload(kk.timer[expired].expiry_time,
                                           kk.timer[expired].period,
                                           kk.tick_count, kk.tick_wrap,
                                           kk.tick_wrap)
                      IN IF e = HANG THEN [kk EXCEPT !.hung = TRUE]
                         ELSE timer_insert_active_list(
                                  [kk EXCEPT !.timer[expired].expiry_time = e],
                                  expired)
                 ELSE [kk EXCEPT !.timer[expired].active = FALSE]
             k3 == Then(k2, Rearm)
         IN IF k3.hung THEN k3
            ELSE TimerTickLoop(k3, current_tick, seen \cup {k})
    ELSE k

rtos_timer_tick(k) == ClearBefore(TimerTickLoop(k, k.tick_count, {}))

(* ------------------------------ kernel.c ------------------------------- *)

(* rtos_kernel_switch_context, the C body of the PendSV handler. *)
rtos_kernel_switch_context(k) ==
    LET cur == k.current_task
        \* if (current_task != NULL && state is neither BLOCKED nor SUSPENDED)
        k0 == IF cur # NULL /\ k.tcb[cur].state \notin {"BLOCKED", "SUSPENDED"}
              THEN rtos_scheduler_add_to_ready_list(
                       [k EXCEPT !.tcb[cur].state = "READY"], cur)
              ELSE k
        k1 == rtos_scheduler_task_completed(k0, cur)
        Pick(k_) ==
            LET next_task == rtos_scheduler_get_next_task(k_)
                kk == AfterGetNextTask(k_)
                idle == rtos_task_get_idle_task(kk)
            IN IF next_task # NULL
               THEN LET k2 == rtos_scheduler_remove_from_ready_list(kk, next_task)
                    IN [k2 EXCEPT !.tcb[next_task].state = "RUNNING",
                                  !.current_task = next_task]
               ELSE IF idle # NULL
               THEN LET k2 == rtos_scheduler_remove_from_ready_list(
                                  [kk EXCEPT !.current_task = idle], idle)
                    IN [k2 EXCEPT !.tcb[idle].state = "RUNNING"]
               ELSE [kk EXCEPT !.current_task = NULL]
    IN Then(k1, Pick)

(* rtos_kernel_tick_handler: the callbacks of the software timers run
   inside the handler, in interrupt context. *)
rtos_kernel_tick_handler(k) ==
    LET k1 == rtos_timer_tick([k EXCEPT !.tick_count = (@ + 1) % k.tick_wrap])
        k2 == Then(k1, rtos_scheduler_update_delayed_tasks)
        Check(k_) ==
            LET next_task == rtos_scheduler_get_next_task(k_)
                k3 == AfterGetNextTask(k_)
                kk == AfterShouldPreempt(k3, next_task)
            IN IF ~k_.g_scheduler_instance.initialized THEN k_
               ELSE IF rtos_scheduler_should_preempt(k3, next_task)
               THEN [kk EXCEPT !.pendsv = TRUE]
               ELSE kk
    IN Then(k2, Check)

(* rtos_kernel_task_ready.  yreq: the function left its critical section
   and called rtos_yield(); the caller decides whether that call is still
   under the caller's own mask. *)
rtos_kernel_task_ready(k, task) ==
    IF task = NULL THEN k
    ELSE
      \* a READY task fails rtos_kernel_validate_transition(READY -> READY)
      IF k.tcb[task].state \notin {"BLOCKED", "RUNNING", "SUSPENDED"} THEN k
      ELSE
        LET k1 == rtos_scheduler_add_to_ready_list(
                      [k EXCEPT !.tcb[task].state = "READY"], task)
            Check(k_) ==
                LET kk == AfterShouldPreempt(k_, task)
                IN IF k_.kstate # "RUNNING" THEN k_
                   ELSE IF rtos_scheduler_should_preempt(k_, task)
                   THEN [kk EXCEPT !.yreq = TRUE]
                   ELSE kk
        IN Then(k1, Check)

(* rtos_kernel_task_block. *)
rtos_kernel_task_block(k, task, delay_ticks) ==
    IF task = NULL THEN k
    ELSE IF k.tcb[task].state \notin {"RUNNING", "READY"} THEN k
    ELSE
      LET k1 == rtos_scheduler_remove_from_ready_list(
                    [k EXCEPT !.tcb[task].state = "BLOCKED"], task)
          k2 == IF delay_ticks > 0
                THEN rtos_scheduler_add_to_delayed_list(k1, task, delay_ticks)
                ELSE k1
          Fin(kk) == IF task = kk.current_task
                     THEN [kk EXCEPT !.yreq = TRUE] ELSE kk
      IN Then(k2, Fin)

(* rtos_kernel_task_unblock.  The rtos_yield() of rtos_kernel_task_ready
   runs under this function's own critical section, so PendSV is pended
   before interrupts are unmasked. *)
rtos_kernel_task_unblock(k, task) ==
    IF task = NULL \/ k.tcb[task].state # "BLOCKED" THEN k
    ELSE
      LET k1 == rtos_scheduler_remove_from_delayed_list(k, task)
          k2 == rtos_kernel_task_ready(k1, task)
      IN IF k2.yreq THEN [k2 EXCEPT !.yreq = FALSE, !.pendsv = TRUE] ELSE k2

(* --------------- wait lists (mutex.c, semaphore.c, queue.c) ------------ *)
(* The three primitives carry the same three list functions over the
   next_waiting link; `w` is [tcb, head, hung]. *)

RECURSIVE FindWaitSlot(_, _, _, _, _)
FindWaitSlot(t, prev, current, prio, fuel) ==
    IF current = NULL \/ t[current].priority < prio THEN <<prev, current>>
    ELSE IF fuel = 0 THEN <<HANG, HANG>>
    ELSE FindWaitSlot(t, current, t[current].next_waiting, prio, fuel - 1)

WaitListAdd(t, head, task, obj, type) ==
    LET t1 == [t EXCEPT ![task].next_waiting = NULL,
                        ![task].blocked_on = obj,
                        ![task].blocked_on_type = type]
    IN IF head = NULL THEN [tcb |-> t1, head |-> task, hung |-> FALSE]
       ELSE LET slot == FindWaitSlot(t1, NULL, head, t1[task].priority,
                                     Cardinality(Tasks))
                prev == slot[1]
                current == slot[2]
            IN IF prev = HANG THEN [tcb |-> t1, head |-> head, hung |-> TRUE]
               ELSE IF prev = NULL
               THEN [tcb |-> [t1 EXCEPT ![task].next_waiting = head],
                     head |-> task, hung |-> FALSE]
               ELSE [tcb |-> [t1 EXCEPT ![task].next_waiting = current,
                                        ![prev].next_waiting = task],
                     head |-> head, hung |-> FALSE]

(* while (current->next_waiting != NULL && current->next_waiting != task) *)
RECURSIVE FindWaitPred(_, _, _, _)
FindWaitPred(t, current, task, fuel) ==
    IF t[current].next_waiting = NULL \/ t[current].next_waiting = task
    THEN current
    ELSE IF fuel = 0 THEN HANG
    ELSE FindWaitPred(t, t[current].next_waiting, task, fuel - 1)

WaitListRemove(t, head, task) ==
    IF head = NULL \/ task = NULL THEN [tcb |-> t, head |-> head, hung |-> FALSE]
    ELSE
      LET Clear(tt) == [tt EXCEPT ![task].next_waiting = NULL,
                                  ![task].blocked_on = NULL,
                                  ![task].blocked_on_type = "NONE"]
      IN IF head = task
         THEN [tcb |-> Clear(t), head |-> t[task].next_waiting, hung |-> FALSE]
         ELSE LET pred == FindWaitPred(t, head, task, Cardinality(Tasks))
              IN IF pred = HANG THEN [tcb |-> t, head |-> head, hung |-> TRUE]
                 ELSE IF t[pred].next_waiting = task
                 THEN [tcb |-> Clear([t EXCEPT ![pred].next_waiting =
                                                   t[task].next_waiting]),
                       head |-> head, hung |-> FALSE]
                 ELSE [tcb |-> Clear(t), head |-> head, hung |-> FALSE]

(* Pop the head: returns [tcb, head, task]. *)
WaitListPop(t, head) ==
    IF head = NULL THEN [tcb |-> t, head |-> NULL, task |-> NULL]
    ELSE [tcb |-> [t EXCEPT ![head].next_waiting = NULL,
                            ![head].blocked_on = NULL,
                            ![head].blocked_on_type = "NONE"],
          head |-> t[head].next_waiting, task |-> head]

mutex_add_to_waiting_list(t, mx, m, task) ==
    WaitListAdd(t, mx[m].waiting_list, task, m, "MUTEX")
mutex_remove_from_waiting_list(t, mx, m, task) ==
    WaitListRemove(t, mx[m].waiting_list, task)
mutex_pop_highest_priority_waiter(t, mx, m) == WaitListPop(t, mx[m].waiting_list)

sem_add_to_waiting_list(t, s, task) ==
    WaitListAdd(t, s.waiting_list, task, SemAddr, "SEMAPHORE")
sem_remove_from_waiting_list(t, s, task) ==
    WaitListRemove(t, s.waiting_list, task)
sem_pop_highest_priority_waiter(t, s) == WaitListPop(t, s.waiting_list)

queue_add_to_waiting_list(t, head, task) ==
    WaitListAdd(t, head, task, QueueAddr, "QUEUE")
queue_remove_from_waiting_list(t, head, task) == WaitListRemove(t, head, task)
queue_pop_highest_priority_waiter(t, head) == WaitListPop(t, head)

(* ------------------------------- mutex.c ------------------------------- *)

(* The inheritance that raises the owner of the mutex only and does not
   follow the owner's own blocking mutex. *)
PipWalk_OwnerOnly(t, mx, target_task, boost_prio, safety_ctr) ==
    IF target_task = NULL \/ safety_ctr >= PIP_MAX_DEPTH THEN t
    ELSE IF t[target_task].priority < boost_prio
    THEN [t EXCEPT ![target_task].priority = boost_prio]
    ELSE t

(* A walk that assigns the boost priority to every owner it visits, also to
   an owner of higher priority. *)
RECURSIVE PipWalk_Assigns(_, _, _, _, _)
PipWalk_Assigns(t, mx, target_task, boost_prio, safety_ctr) ==
    IF target_task = NULL \/ safety_ctr >= PIP_MAX_DEPTH THEN t
    ELSE
      LET t1 == [t EXCEPT ![target_task].priority = boost_prio]
      IN IF /\ t1[target_task].state = "BLOCKED"
            /\ t1[target_task].blocked_on_type = "MUTEX"
            /\ t1[target_task].blocked_on # NULL
         THEN PipWalk_Assigns(t1, mx, mx[t1[target_task].blocked_on].owner,
                              boost_prio, safety_ctr + 1)
         ELSE t1

(* The owners that the while loop of mutex_apply_priority_inheritance
   visits, one per iteration, in order. *)
RECURSIVE PipVisited(_, _, _, _)
PipVisited(t, mx, target_task, safety_ctr) ==
    IF target_task = NULL \/ safety_ctr >= PIP_MAX_DEPTH THEN <<>>
    ELSE IF /\ t[target_task].state = "BLOCKED"
            /\ t[target_task].blocked_on_type = "MUTEX"
            /\ t[target_task].blocked_on # NULL
    THEN <<target_task>> \o
         PipVisited(t, mx, mx[t[target_task].blocked_on].owner, safety_ctr + 1)
    ELSE <<target_task>>

(* The walk of mutex_apply_priority_inheritance over the chain of owners;
   mx is the table of mutexes, to follow target->blocked_on->owner. *)
RECURSIVE PipWalk(_, _, _, _, _)
PipWalk(t, mx, target_task, boost_prio, safety_ctr) ==
    IF target_task = NULL \/ safety_ctr >= PIP_MAX_DEPTH THEN t
    ELSE
      LET t1 == IF t[target_task].priority < boost_prio
                THEN [t EXCEPT ![target_task].priority = boost_prio]
                ELSE t
          boost1 == IF t[target_task].priority > boost_prio
                    THEN t[target_task].priority
                    ELSE boost_prio
      IN IF /\ t1[target_task].state = "BLOCKED"
            /\ t1[target_task].blocked_on_type = "MUTEX"
            /\ t1[target_task].blocked_on # NULL
         THEN PipWalk(t1, mx, mx[t1[target_task].blocked_on].owner,
                      boost1, safety_ctr + 1)
         ELSE t1

mutex_apply_priority_inheritance(t, mx, m, waiter) ==
    PipWalk(t, mx, mx[m].owner, t[waiter].priority, 0)

(* A restore that drops the task to the lowest priority instead of its
   base priority. *)
mutex_restore_priority_Lowest(t, task) ==
    IF task = NULL THEN t
    ELSE [t EXCEPT ![task].priority = RTOS_IDLE_TASK_PRIORITY]

mutex_restore_priority(t, task) ==
    IF task = NULL THEN t
    ELSE IF t[task].priority # t[task].base_priority
    THEN [t EXCEPT ![task].priority = t[task].base_priority]
    ELSE t

(* ----------------------- task code: common parts ----------------------- *)

RunCtx == [pc |-> "run", op |-> "none", obj |-> NULL, tmo |-> 0, wk |-> NULL,
           val |-> 0, since |-> 0]

NoEvent == [ev |-> "none", task |-> NULL, obj |-> NULL, st |-> "none"]

Ret(e, t, o, s) == [ev |-> e, task |-> t, obj |-> o, st |-> s]

WaitOps == {"mutex_lock", "sem_wait", "queue_send", "queue_receive"}

(* Task t executes: it is the task whose context the CPU holds, no handler
   is pending, and the CPU is not spinning. *)
Exec(t) ==
    /\ kstate = "RUNNING" /\ ~hung /\ ~pendsv
    /\ current_task = t
    /\ t # Idle

AtRun(t) == Exec(t) /\ ctx[t].pc = "run"

Timeouts == {RTOS_NO_WAIT, RTOS_MAX_WAIT} \cup (1 .. MaxDelay)

SyncUnchanged == UNCHANGED <<mutex, sem, queue, hist>>

(* Task t starts an API call: a task that runs a program moves to its next
   instruction; ip = 0 is a task that calls the API in any order. *)
Call(t) == ip' = [ip EXCEPT ![t] = IF @ = 0 THEN 0 ELSE @ + 1]

(* ---------------------------- the handlers ----------------------------- *)

(* PendSV_Handler: entry clears the pending bit, the body is
   rtos_kernel_switch_context under the mask. *)
PendSV ==
    /\ kstate = "RUNNING" /\ ~hung /\ pendsv
    /\ Commit(rtos_kernel_switch_context([K EXCEPT !.pendsv = FALSE]))
    /\ last' = NoEvent
    /\ UNCHANGED ctx /\ SyncUnchanged
    /\ UNCHANGED ip

(* SysTick_Handler: fires between any two critical sections. *)
Tick ==
    /\ kstate = "RUNNING" /\ ~hung
    /\ Commit(rtos_kernel_tick_handler(K))
    /\ last' = NoEvent
    /\ UNCHANGED ctx /\ SyncUnchanged
    /\ UNCHANGED ip

(* ------------------------- kernel.c: task API -------------------------- *)

(* rtos_yield() called by the application. *)
Yield(t) ==
    /\ AtRun(t)
    /\ Commit([K EXCEPT !.pendsv = TRUE])
    /\ last' = NoEvent
    /\ UNCHANGED ctx /\ SyncUnchanged
    /\ Call(t)

(* rtos_delay_ticks(ticks), ticks > 0: the critical section. *)
DelayTicks(t, ticks) ==
    /\ AtRun(t)
    /\ Commit(rtos_scheduler_add_to_delayed_list(
                  [K EXCEPT !.tcb[t].state = "BLOCKED"], t, ticks))
    /\ ctx' = [ctx EXCEPT ![t] = [RunCtx EXCEPT !.pc = "yield", !.op = "delay"]]
    /\ last' = NoEvent
    /\ SyncUnchanged
    /\ Call(t)

(* The rtos_yield() that follows rtos_port_exit_critical() in
   rtos_delay_ticks, rtos_kernel_task_block, rtos_kernel_task_ready,
   rtos_task_suspend and the infinite waits. *)
YieldAfterCritical(t) ==
    /\ Exec(t) /\ ctx[t].pc = "yield"
    /\ Commit([K EXCEPT !.pendsv = TRUE])
    /\ ctx' = [ctx EXCEPT ![t] = IF ctx[t].op \in WaitOps \cup {"delay_ticks"}
                                 THEN [@ EXCEPT !.pc = "after"]
                                 ELSE RunCtx]
    /\ last' = NoEvent
    /\ SyncUnchanged
    /\ UNCHANGED ip

(* rtos_kernel_task_block(current_task, timeout_ticks) of a timed wait. *)
TimedBlock(t) ==
    /\ Exec(t) /\ ctx[t].pc = "block"
    /\ LET k1 == rtos_kernel_task_block(K, t, ctx[t].tmo)
       IN /\ Commit(k1)
          /\ ctx' = [ctx EXCEPT ![t].pc = IF k1.yreq THEN "yield" ELSE "after"]
    /\ last' = NoEvent
    /\ SyncUnchanged
    /\ UNCHANGED ip

(* rtos_kernel_task_unblock(waiter) after the critical section that popped
   the waiter.  A context switch it pends is taken before the caller's
   next instruction. *)
UnblockWaiter(t) ==
    /\ Exec(t) /\ ctx[t].pc = "unblock"
    /\ Commit(rtos_kernel_task_unblock(K, ctx[t].wk))
    /\ ctx' = [ctx EXCEPT ![t].pc = "ret"]
    /\ last' = NoEvent
    /\ SyncUnchanged
    /\ UNCHANGED ip

(* The `return RTOS_SUCCESS` (RTOS_SEM_OK, RTOS_MUTEX_OK) that follows
   rtos_kernel_task_unblock(waiter). *)
ReturnAfterUnblock(t) ==
    /\ Exec(t) /\ ctx[t].pc = "ret"
    /\ Commit(K)
    /\ ctx' = [ctx EXCEPT ![t] = RunCtx]
    /\ last' = Ret(ctx[t].op, t, ctx[t].obj, "OK")
    /\ hist' = IF ctx[t].op = "sem_signal"
               THEN [hist EXCEPT !.given = @ + 1] ELSE hist
    /\ UNCHANGED <<mutex, sem, queue>>
    /\ UNCHANGED ip

(* ------------------------------- task.c -------------------------------- *)

(* rtos_task_create called by a running task. *)
TaskCreate(t, stack_size, priority) ==
    /\ AtRun(t)
    /\ Commit(rtos_task_create(K, stack_size, priority))
    /\ LET status == rtos_task_create_status(K, stack_size, priority)
           new_task == rtos_task_allocate_tcb(K)
       IN IF status = "SUCCESS"
          THEN /\ ctx' = [ctx EXCEPT ![new_task] = RunCtx]
               /\ last' = Ret("task_create", t, new_task, status)
          ELSE /\ ctx' = ctx
               /\ last' = Ret("task_create", t, NULL, status)
    /\ SyncUnchanged
    /\ Call(t)

(* rtos_task_suspend(target); target = t is rtos_task_suspend(NULL). *)
TaskSuspend(t, target) ==
    /\ AtRun(t)
    /\ tcb[target].used
    /\ LET k1 == IF tcb[target].state = "READY"
                 THEN rtos_scheduler_remove_from_ready_list(K, target)
                 ELSE IF tcb[target].state = "BLOCKED"
                 THEN rtos_scheduler_remove_from_delayed_list(K, target)
                 ELSE K
       IN Commit([k1 EXCEPT !.tcb[target].state = "SUSPENDED"])
    /\ ctx' = [ctx EXCEPT ![t] = IF target = current_task
                                 THEN [RunCtx EXCEPT !.pc = "yield",
                                                     !.op = "task_suspend",
                                                     !.obj = target]
                                 ELSE RunCtx]
    /\ last' = Ret("task_suspend", t, target, "SUCCESS")
    /\ SyncUnchanged
    /\ Call(t)

(* rtos_task_resume(target): the state check in its own critical section;
   a target that is not SUSPENDED makes it return RTOS_ERROR_INVALID_STATE. *)
TaskResume(t, target) ==
    /\ AtRun(t)
    /\ tcb[target].used
    /\ ctx' = [ctx EXCEPT ![t] = IF tcb[target].state = "SUSPENDED"
                                 THEN [RunCtx EXCEPT !.pc = "ready",
                                                     !.op = "task_resume",
                                                     !.obj = target]
                                 ELSE RunCtx]
    /\ last' = IF tcb[target].state = "SUSPENDED" THEN NoEvent
               ELSE Ret("task_resume", t, target, "INVALID_STATE")
    /\ Commit(K)
    /\ SyncUnchanged
    /\ Call(t)

(* rtos_kernel_task_ready(target) called by rtos_task_resume after it has
   left its critical section; rtos_task_resume then returns RTOS_SUCCESS. *)
TaskResumeReady(t) ==
    /\ Exec(t) /\ ctx[t].pc = "ready"
    /\ LET k1 == rtos_kernel_task_ready(K, ctx[t].obj)
       IN /\ Commit(k1)
          /\ ctx' = [ctx EXCEPT ![t] = IF k1.yreq
                                       THEN [@ EXCEPT !.pc = "yield"]
                                       ELSE RunCtx]
          /\ last' = Ret("task_resume", t, ctx[t].obj, "SUCCESS")
    /\ SyncUnchanged
    /\ UNCHANGED ip

(* ------------------------------- mutex.c ------------------------------- *)

InitMutex == [owner |-> NULL, waiting_list |-> NULL, lock_count |-> 0]

(* A recursive lock without the test of the depth: the uint8_t lock_count
   is incremented whatever its value. *)
MutexRelock_NoLimit(lock_count) ==
    [lock_count |-> (lock_count + 1) % 256, st |-> "OK"]

(* The recursive branch of rtos_mutex_lock: the new lock_count and the
   status returned. *)
MutexRelock(lock_count) ==
    IF lock_count < MUTEX_MAX_RECURSION
    THEN [lock_count |-> lock_count + 1, st |-> "OK"]
    ELSE [lock_count |-> lock_count, st |-> "GENERAL"]

(* rtos_mutex_lock(m, timeout_ticks): the first critical section. *)
MutexLock(t, m, timeout_ticks) ==
    /\ AtRun(t)
    /\ IF mutex[m].owner = NULL
       THEN /\ mutex' = [mutex EXCEPT ![m].owner = t, ![m].lock_count = 1]
            /\ Commit(K)
            /\ UNCHANGED ctx
            /\ last' = Ret("mutex_lock", t, m, "OK")
       ELSE IF mutex[m].owner = t
       THEN /\ mutex' = [mutex EXCEPT ![m].lock_count =
                                          MutexRelock(mutex[m].lock_count).lock_count]
            /\ Commit(K)
            /\ UNCHANGED ctx
            /\ last' = Ret("mutex_lock", t, m,
                           MutexRelock(mutex[m].lock_count).st)
       ELSE IF timeout_ticks = RTOS_NO_WAIT
       THEN /\ UNCHANGED <<mutex, ctx>>
            /\ Commit(K)
            /\ last' = Ret("mutex_lock", t, m, "TIMEOUT")
       ELSE LET t1 == mutex_apply_priority_inheritance(tcb, mutex, m, t)
                w == mutex_add_to_waiting_list(t1, mutex, m, t)
                t2 == IF timeout_ticks = RTOS_MAX_WAIT /\ ~w.hung
                      THEN [w.tcb EXCEPT ![t].state = "BLOCKED"]
                      ELSE w.tcb
            IN /\ mutex' = [mutex EXCEPT ![m].waiting_list = w.head]
               /\ Commit([K EXCEPT !.tcb = t2, !.hung = w.hung])
               /\ ctx' = [ctx EXCEPT ![t] =
                            [RunCtx EXCEPT
                               !.pc = IF timeout_ticks = RTOS_MAX_WAIT
                                      THEN "yield" ELSE "block",
                               !.op = "mutex_lock", !.obj = m,
                               !.tmo = timeout_ticks]]
               /\ last' = NoEvent
    /\ UNCHANGED <<sem, queue, hist>>
    /\ Call(t)

(* rtos_mutex_lock: the critical section after the task resumes. *)
MutexLockAfter(t) ==
    /\ Exec(t) /\ ctx[t].pc = "after" /\ ctx[t].op = "mutex_lock"
    /\ LET m == ctx[t].obj
           w == mutex_remove_from_waiting_list(tcb, mutex, m, t)
       IN IF tcb[t].blocked_on = m
          THEN /\ mutex' = [mutex EXCEPT ![m].waiting_list = w.head]
               /\ Commit([K EXCEPT !.tcb = w.tcb, !.hung = w.hung])
               /\ last' = Ret("mutex_lock", t, m, "TIMEOUT")
          ELSE /\ UNCHANGED mutex
               /\ Commit(K)
               /\ last' = Ret("mutex_lock", t, m, "OK")
    /\ ctx' = [ctx EXCEPT ![t] = RunCtx]
    /\ UNCHANGED <<sem, queue, hist>>
    /\ UNCHANGED ip

(* The unlock that releases the mutex and wakes the head waiter to take it
   again, instead of handing it over. *)
MutexUnlock_Release(t, m) ==
    /\ AtRun(t)
    /\ IF mutex[m].owner # t
       THEN /\ UNCHANGED <<mutex, ctx>>
            /\ Commit(K)
            /\ last' = Ret("mutex_unlock", t, m, "INVALID_PARAM")
       ELSE IF mutex[m].lock_count > 1
       THEN /\ mutex' = [mutex EXCEPT ![m].lock_count = @ - 1]
            /\ Commit(K)
            /\ UNCHANGED ctx
            /\ last' = Ret("mutex_unlock", t, m, "OK")
       ELSE LET t1 == mutex_restore_priority(tcb, t)
                w == mutex_pop_highest_priority_waiter(t1, mutex, m)
            IN /\ mutex' = [mutex EXCEPT ![m].waiting_list = w.head,
                                         ![m].owner = NULL,
                                         ![m].lock_count = 0]
               /\ Commit([K EXCEPT !.tcb = w.tcb])
               /\ ctx' = IF w.task # NULL
                         THEN [ctx EXCEPT ![t] =
                                 [RunCtx EXCEPT !.pc = "unblock",
                                                !.op = "mutex_unlock",
                                                !.obj = m, !.wk = w.task]]
                         ELSE ctx
               /\ last' = IF w.task # NULL THEN NoEvent
                          ELSE Ret("mutex_unlock", t, m, "OK")
    /\ UNCHANGED <<sem, queue, hist>>
    /\ Call(t)

(* rtos_mutex_unlock(m): the critical section; a popped waiter is
   unblocked after it (UnblockWaiter). *)
MutexUnlock(t, m) ==
    /\ AtRun(t)
    /\ IF mutex[m].owner # t
       THEN /\ UNCHANGED <<mutex, ctx>>
            /\ Commit(K)
            /\ last' = Ret("mutex_unlock", t, m, "INVALID_PARAM")
       ELSE IF mutex[m].lock_count > 1
       THEN /\ mutex' = [mutex EXCEPT ![m].lock_count = @ - 1]
            /\ Commit(K)
            /\ UNCHANGED ctx
            /\ last' = Ret("mutex_unlock", t, m, "OK")
       ELSE LET t1 == mutex_restore_priority(tcb, t)
                w == mutex_pop_highest_priority_waiter(t1, mutex, m)
            IN IF w.task # NULL
               THEN /\ mutex' = [mutex EXCEPT ![m].waiting_list = w.head,
                                              ![m].owner = w.task,
                                              ![m].lock_count = 1]
                    /\ Commit([K EXCEPT !.tcb = w.tcb])
                    /\ ctx' = [ctx EXCEPT ![t] =
                                 [RunCtx EXCEPT !.pc = "unblock",
                                                !.op = "mutex_unlock",
                                                !.obj = m, !.wk = w.task]]
                    /\ last' = [NoEvent EXCEPT !.ev = "mutex_handoff",
                                               !.task = w.task, !.obj = m]
               ELSE /\ mutex' = [mutex EXCEPT ![m].owner = NULL,
                                              ![m].lock_count = 0]
                    /\ Commit([K EXCEPT !.tcb = t1])
                    /\ UNCHANGED ctx
                    /\ last' = Ret("mutex_unlock", t, m, "OK")
    /\ UNCHANGED <<sem, queue, hist>>
    /\ Call(t)

(* ----------------------------- semaphore.c ----------------------------- *)

(* rtos_semaphore_init(sem, initial_count, max_count), for arguments it
   accepts. *)
rtos_semaphore_init(initial_count, max_count) ==
    [count |-> initial_count, max_count |-> max_count, waiting_list |-> NULL]

(* rtos_semaphore_wait(sem, timeout_ticks): the first critical section. *)
SemWait(t, timeout_ticks) ==
    /\ AtRun(t)
    /\ IF sem.count > 0
       THEN /\ sem' = [sem EXCEPT !.count = @ - 1]
            /\ Commit(K)
            /\ UNCHANGED ctx
            /\ last' = Ret("sem_wait", t, SemAddr, "OK")
            /\ hist' = [hist EXCEPT !.taken = @ + 1]
       ELSE IF timeout_ticks = RTOS_SEM_NO_WAIT
       THEN /\ UNCHANGED <<sem, ctx, hist>>
            /\ Commit(K)
            /\ last' = Ret("sem_wait", t, SemAddr, "TIMEOUT")
       ELSE LET w == sem_add_to_waiting_list(tcb, sem, t)
                t2 == IF timeout_ticks = RTOS_SEM_MAX_WAIT /\ ~w.hung
                      THEN [w.tcb EXCEPT ![t].state = "BLOCKED"]
                      ELSE w.tcb
            IN /\ sem' = [sem EXCEPT !.waiting_list = w.head]
               /\ Commit([K EXCEPT !.tcb = t2, !.hung = w.hung])
               /\ ctx' = [ctx EXCEPT ![t] =
                            [RunCtx EXCEPT
                               !.pc = IF timeout_ticks = RTOS_SEM_MAX_WAIT
                                      THEN "yield" ELSE "block",
                               !.op = "sem_wait", !.obj = SemAddr,
                               !.tmo = timeout_ticks]]
               /\ last' = NoEvent
               /\ UNCHANGED hist
    /\ UNCHANGED <<mutex, queue>>
    /\ Call(t)

(* rtos_semaphore_wait: the critical section after the task resumes. *)
SemWaitAfter(t) ==
    /\ Exec(t) /\ ctx[t].pc = "after" /\ ctx[t].op = "sem_wait"
    /\ LET w == sem_remove_from_waiting_list(tcb, sem, t)
       IN IF tcb[t].blocked_on = SemAddr
          THEN /\ sem' = [sem EXCEPT !.waiting_list = w.head]
               /\ Commit([K EXCEPT !.tcb = w.tcb, !.hung = w.hung])
               /\ last' = Ret("sem_wait", t, SemAddr, "TIMEOUT")
               /\ UNCHANGED hist
          ELSE /\ UNCHANGED sem
               /\ Commit(K)
               /\ last' = Ret("sem_wait", t, SemAddr, "OK")
               /\ hist' = [hist EXCEPT !.taken = @ + 1]
    /\ ctx' = [ctx EXCEPT ![t] = RunCtx]
    /\ UNCHANGED <<mutex, queue>>
    /\ UNCHANGED ip

(* rtos_semaphore_signal that counts the unit it hands to a waiter as
   well: count++ on both paths. *)
SemSignal_AlsoCounts(t) ==
    /\ AtRun(t)
    /\ LET w == sem_pop_highest_priority_waiter(tcb, sem)
       IN IF w.task # NULL
          THEN /\ sem' = [sem EXCEPT !.waiting_list = w.head,
                                     !.count = @ + 1]
               /\ Commit([K EXCEPT !.tcb = w.tcb])
               /\ ctx' = [ctx EXCEPT ![t] =
                            [RunCtx EXCEPT !.pc = "unblock",
                                           !.op = "sem_signal",
                                           !.obj = SemAddr, !.wk = w.task]]
               /\ last' = [NoEvent EXCEPT !.ev = "sem_handoff",
                                          !.task = w.task, !.obj = SemAddr]
               /\ hist' = [hist EXCEPT !.posted = @ + 1]
          ELSE IF sem.max_count # 0 /\ sem.count >= sem.max_count
          THEN /\ UNCHANGED <<sem, ctx, hist>>
               /\ Commit(K)
               /\ last' = Ret("sem_signal", t, SemAddr, "OVERFLOW")
          ELSE /\ sem' = [sem EXCEPT !.count = @ + 1]
               /\ Commit(K)
               /\ UNCHANGED ctx
               /\ last' = Ret("sem_signal", t, SemAddr, "OK")
               /\ hist' = [hist EXCEPT !.posted = @ + 1, !.given = @ + 1]
    /\ UNCHANGED <<mutex, queue>>
    /\ Call(t)

(* rtos_semaphore_signal(sem): the critical section. *)
SemSignal(t) ==
    /\ AtRun(t)
    /\ LET w == sem_pop_highest_priority_waiter(tcb, sem)
       IN IF w.task # NULL
          THEN /\ sem' = [sem EXCEPT !.waiting_list = w.head]
               /\ Commit([K EXCEPT !.tcb = w.tcb])
               /\ ctx' = [ctx EXCEPT ![t] =
                            [RunCtx EXCEPT !.pc = "unblock",
                                           !.op = "sem_signal",
                                           !.obj = SemAddr, !.wk = w.task]]
               /\ last' = [NoEvent EXCEPT !.ev = "sem_handoff",
                                          !.task = w.task, !.obj = SemAddr]
               /\ hist' = [hist EXCEPT !.posted = @ + 1]
          ELSE IF sem.max_count # 0 /\ sem.count >= sem.max_count
          THEN /\ UNCHANGED <<sem, ctx, hist>>
               /\ Commit(K)
               /\ last' = Ret("sem_signal", t, SemAddr, "OVERFLOW")
          ELSE /\ sem' = [sem EXCEPT !.count = @ + 1]
               /\ Commit(K)
               /\ UNCHANGED ctx
               /\ last' = Ret("sem_signal", t, SemAddr, "OK")
               /\ hist' = [hist EXCEPT !.posted = @ + 1, !.given = @ + 1]
    /\ UNCHANGED <<mutex, queue>>
    /\ Call(t)

(* ------------------------------- queue.c ------------------------------- *)

rtos_queue_init(item_count) ==
    [length |-> item_count, count |-> 0, read_ptr |-> 0, write_ptr |-> 0,
     buffer |-> [i \in 0 .. (QueueLength - 1) |-> 0],
     sender_wait_list |-> NULL, receiver_wait_list |-> NULL]

InitQueue == rtos_queue_init(QueueLength)

(* copy_data of rtos_queue_send: memcpy into the slot, advance and wrap the
   write pointer, count++. *)
QueueCopyIn(q, item) ==
    [q EXCEPT !.buffer[q.write_ptr] = item,
              !.write_ptr = IF q.write_ptr + 1 >= q.length THEN 0
                            ELSE q.write_ptr + 1,
              !.count = @ + 1]

(* rtos_queue_receive with the wrap of the read pointer tested one slot
   early. *)
QueueCopyOut_EarlyWrap(q) ==
    [q EXCEPT !.read_ptr = IF q.read_ptr + 1 >= q.length - 1 THEN 0
                           ELSE q.read_ptr + 1,
              !.count = @ - 1]

(* copy_data of rtos_queue_receive. *)
QueueCopyOut(q) ==
    [q EXCEPT !.read_ptr = IF q.read_ptr + 1 >= q.length THEN 0
                           ELSE q.read_ptr + 1,
              !.count = @ - 1]

(* copy_data of rtos_queue_send to the end of the critical section: store
   the item, pop a waiting receiver; the receiver is unblocked after it. *)
SendCopyData(t, item, nv) ==
    LET q1 == QueueCopyIn(queue, item)
        w == queue_pop_highest_priority_waiter(tcb, q1.receiver_wait_list)
    IN /\ queue' = [q1 EXCEPT !.receiver_wait_list = w.head]
       /\ Commit([K EXCEPT !.tcb = w.tcb])
       /\ hist' = [hist EXCEPT !.accepted = Append(@, item), !.nextval = nv]
       /\ IF w.task # NULL
          THEN /\ ctx' = [ctx EXCEPT ![t] =
                            [RunCtx EXCEPT !.pc = "unblock", !.op = "queue_send",
                                           !.obj = QueueAddr, !.wk = w.task]]
               /\ last' = [NoEvent EXCEPT !.ev = "queue_accept",
                                          !.task = t, !.obj = QueueAddr]
          ELSE /\ ctx' = [ctx EXCEPT ![t] = RunCtx]
               /\ last' = Ret("queue_send", t, QueueAddr, "OK")

(* copy_data of rtos_queue_receive that takes the item and leaves the
   waiting senders where they are. *)
ReceiveCopyData_NoWake(t) ==
    LET item == queue.buffer[queue.read_ptr]
    IN /\ queue' = QueueCopyOut(queue)
       /\ Commit(K)
       /\ hist' = [hist EXCEPT !.delivered = Append(@, item)]
       /\ ctx' = [ctx EXCEPT ![t] = RunCtx]
       /\ last' = Ret("queue_receive", t, QueueAddr, "OK")

(* copy_data of rtos_queue_receive to the end of the critical section. *)
ReceiveCopyData(t) ==
    LET item == queue.buffer[queue.read_ptr]
        q1 == QueueCopyOut(queue)
        w == queue_pop_highest_priority_waiter(tcb, q1.sender_wait_list)
    IN /\ queue' = [q1 EXCEPT !.sender_wait_list = w.head]
       /\ Commit([K EXCEPT !.tcb = w.tcb])
       /\ hist' = [hist EXCEPT !.delivered = Append(@, item)]
       /\ IF w.task # NULL
          THEN /\ ctx' = [ctx EXCEPT ![t] =
                            [RunCtx EXCEPT !.pc = "unblock",
                                           !.op = "queue_receive",
                                           !.obj = QueueAddr, !.wk = w.task]]
               /\ last' = [NoEvent EXCEPT !.ev = "queue_deliver",
                                          !.task = t, !.obj = QueueAddr]
          ELSE /\ ctx' = [ctx EXCEPT ![t] = RunCtx]
               /\ last' = Ret("queue_receive", t, QueueAddr, "OK")

(* The blocking branch of rtos_queue_send / rtos_queue_receive up to the
   end of the critical section; side is the wait list the caller joins. *)
QueueBlock(t, op, side, timeout_ticks, item) ==
    LET head == IF side = "sender" THEN queue.sender_wait_list
                ELSE queue.receiver_wait_list
        w == queue_add_to_waiting_list(tcb, head, t)
        k1 == [K EXCEPT !.tcb = w.tcb, !.hung = w.hung]
        \* current_task->state = BLOCKED;
        \* rtos_scheduler_remove_from_ready_list(current_task);
        Inf(kk) == rtos_scheduler_remove_from_ready_list(
                       [kk EXCEPT !.tcb[t].state = "BLOCKED"], t)
    IN /\ queue' = IF side = "sender"
                   THEN [queue EXCEPT !.sender_wait_list = w.head]
                   ELSE [queue EXCEPT !.receiver_wait_list = w.head]
       /\ Commit(IF timeout_ticks = RTOS_MAX_DELAY THEN Then(k1, Inf) ELSE k1)
       /\ ctx' = [ctx EXCEPT ![t] =
                    [RunCtx EXCEPT !.pc = IF timeout_ticks = RTOS_MAX_DELAY
                                          THEN "yield" ELSE "block",
                                   !.op = op, !.obj = QueueAddr,
                                   !.tmo = timeout_ticks, !.val = item]]
       /\ last' = NoEvent

(* rtos_queue_send(queue, &item, timeout_ticks): the first critical section.
   The application numbers its items 1, 2, ... in the order of its calls. *)
QueueSend(t, timeout_ticks) ==
    /\ AtRun(t)
    /\ hist.nextval < MaxItems
    /\ LET item == hist.nextval + 1
       IN IF queue.count < queue.length
          THEN SendCopyData(t, item, item) /\ UNCHANGED <<mutex, sem>>
          ELSE IF timeout_ticks = 0
          THEN /\ UNCHANGED <<queue, ctx, mutex, sem>>
               /\ hist' = [hist EXCEPT !.nextval = item]
               /\ Commit(K)
               /\ last' = Ret("queue_send", t, QueueAddr, "FULL")
          ELSE /\ QueueBlock(t, "queue_send", "sender", timeout_ticks, item)
               /\ hist' = [hist EXCEPT !.nextval = item]
               /\ UNCHANGED <<mutex, sem>>
    /\ Call(t)

(* rtos_queue_send: the critical section after the task resumes. *)
QueueSendAfter(t) ==
    /\ Exec(t) /\ ctx[t].pc = "after" /\ ctx[t].op = "queue_send"
    /\ IF tcb[t].blocked_on = QueueAddr
       THEN LET w == queue_remove_from_waiting_list(tcb, queue.sender_wait_list, t)
            IN /\ queue' = [queue EXCEPT !.sender_wait_list = w.head]
               /\ Commit([K EXCEPT !.tcb = w.tcb, !.hung = w.hung])
               /\ ctx' = [ctx EXCEPT ![t] = RunCtx]
               /\ last' = Ret("queue_send", t, QueueAddr, "TIMEOUT")
               /\ UNCHANGED hist
       ELSE IF queue.count >= queue.length
       THEN /\ UNCHANGED <<queue, hist>>
            /\ Commit(K)
            /\ ctx' = [ctx EXCEPT ![t] = RunCtx]
            /\ last' = Ret("queue_send", t, QueueAddr, "FULL")
       ELSE SendCopyData(t, ctx[t].val, hist.nextval)
    /\ UNCHANGED <<mutex, sem>>
    /\ UNCHANGED ip

(* The loop of rtos_queue_reset: pop the head of the sender wait list and
   unblock it, until the list is empty.  Every pop clears the link of the
   node it takes, so the loop ends even on a cyclic list. *)
RECURSIVE QueueResetLoop(_, _, _)
QueueResetLoop(k, sender_wait_list, fuel) ==
    IF sender_wait_list = NULL THEN k
    ELSE IF fuel = 0 THEN [k EXCEPT !.hung = TRUE]
    ELSE LET w == queue_pop_highest_priority_waiter(k.tcb, sender_wait_list)
             k1 == rtos_kernel_task_unblock([k EXCEPT !.tcb = w.tcb], w.task)
         IN IF k1.hung THEN k1 ELSE QueueResetLoop(k1, w.head, fuel - 1)

(* rtos_queue_reset(queue): one critical section; a context switch that an
   unblock pends is taken when the section ends. *)
QueueReset(t) ==
    /\ AtRun(t)
    /\ queue' = [queue EXCEPT !.count = 0, !.read_ptr = 0, !.write_ptr = 0,
                              !.sender_wait_list = NULL]
    /\ Commit(QueueResetLoop(K, queue.sender_wait_list, 2 * Cardinality(Tasks)))
    /\ UNCHANGED <<ctx, hist, mutex, sem>>
    /\ last' = Ret("queue_reset", t, QueueAddr, "OK")
    /\ Call(t)

(* rtos_queue_receive(queue, &buffer, timeout_ticks): the first critical
   section. *)
QueueReceive(t, timeout_ticks) ==
    /\ AtRun(t)
    /\ IF queue.count > 0
       THEN ReceiveCopyData(t)
       ELSE IF timeout_ticks = 0
       THEN /\ UNCHANGED <<queue, ctx, hist>>
            /\ Commit(K)
            /\ last' = Ret("queue_receive", t, QueueAddr, "EMPTY")
       ELSE /\ QueueBlock(t, "queue_receive", "receiver", timeout_ticks, 0)
            /\ UNCHANGED hist
    /\ UNCHANGED <<mutex, sem>>
    /\ Call(t)

(* rtos_queue_receive: the critical section after the task resumes. *)
QueueReceiveAfter(t) ==
    /\ Exec(t) /\ ctx[t].pc = "after" /\ ctx[t].op = "queue_receive"
    /\ IF tcb[t].blocked_on = QueueAddr
       THEN LET w == queue_remove_from_waiting_list(tcb, queue.receiver_wait_list, t)
            IN /\ queue' = [queue EXCEPT !.receiver_wait_list = w.head]
               /\ Commit([K EXCEPT !.tcb = w.tcb, !.hung = w.hung])
               /\ ctx' = [ctx EXCEPT ![t] = RunCtx]
               /\ last' = Ret("queue_receive", t, QueueAddr, "TIMEOUT")
               /\ UNCHANGED hist
       ELSE IF queue.count = 0
       THEN /\ UNCHANGED <<queue, hist>>
            /\ Commit(K)
            /\ ctx' = [ctx EXCEPT ![t] = RunCtx]
            /\ last' = Ret("queue_receive", t, QueueAddr, "EMPTY")
       ELSE ReceiveCopyData(t)
    /\ UNCHANGED <<mutex, sem>>
    /\ UNCHANGED ip

(* ------------------------- start-up (kernel.c) ------------------------- *)

(* The zero-initialised kernel, task pool and scheduler data. *)
K0 ==
    [tcb |-> [i \in Tasks |-> EmptyTcb],
     ready_lists |-> [p \in Priorities |-> NULL],
     ready_priorities |-> {}, delayed_list |-> NULL,
     g_cooperative_data |-> [ready_list |-> NULL, delayed_list |-> NULL],
     g_round_robin_data |->
         [ready_list |-> NULL, ready_list_tail |-> NULL,
          delayed_list |-> NULL, current_task |-> NULL,
          slice_remaining |-> 0, ready_count |-> 0, delayed_count |-> 0],
     g_scheduler_instance |-> [type |-> "COOPERATIVE", initialized |-> FALSE],
     rtos_scheduler_type |-> RTOS_SCHEDULER_TYPE,
     timer |-> [i \in Timers |-> EmptyTimer], g_active_timers |-> NULL,
     g_heap_memory |-> SetMin(HeapPlacements), g_heap_index |-> 0,
     tick_count |-> 0,
     tick_wrap |-> TickWrap,
     current_task |-> NULL, kstate |-> "INACTIVE", pendsv |-> FALSE,
     hung |-> FALSE, yreq |-> FALSE]

(* rtos_init: returns early, leaving the kernel INACTIVE, when
   rtos_scheduler_init fails; otherwise creates the idle task and leaves
   the kernel READY. *)
rtos_init(k) ==
    LET k1 == rtos_scheduler_init(k, k.rtos_scheduler_type)
    IN IF ~k1.g_scheduler_instance.initialized THEN k1
       ELSE [rtos_task_create(k1, 0, RTOS_IDLE_TASK_PRIORITY)
             EXCEPT !.kstate = "READY"]

(* rtos_start_scheduler. *)
rtos_start_scheduler(k) ==
    LET next_task == rtos_scheduler_get_next_task(k)
        k1 == AfterGetNextTask(k)
    IN IF k.kstate # "READY" THEN k
       ELSE IF next_task = NULL THEN k1
       ELSE [rtos_scheduler_remove_from_ready_list(
                 [k1 EXCEPT !.current_task = next_task,
                            !.tcb[next_task].state = "RUNNING"], next_task)
             EXCEPT !.kstate = "RUNNING"]

(* main(): rtos_init and, unless it fails (indicate_system_failure never
   returns), one rtos_task_create per entry of prios, then
   rtos_start_scheduler. *)
RECURSIVE CreateAll(_, _)
CreateAll(k, prios) ==
    IF prios = <<>> THEN k
    ELSE CreateAll(rtos_task_create(k, RTOS_DEFAULT_TASK_STACK_SIZE,
                                    Head(prios)), Tail(prios))

BootFrom(k, prios) ==
    LET k1 == rtos_init(k)
    IN IF k1.kstate # "READY" THEN k1
       ELSE rtos_start_scheduler(CreateAll(k1, prios))

Boot(prios) == BootFrom(K0, prios)

InitFrom(k, first, s, q) ==
    /\ Start(k)
    /\ ip = [t \in Tasks |-> first]
    /\ mutex = [m \in Mutexes |-> InitMutex]
    /\ sem = s
    /\ queue = q
    /\ ctx = [t \in Tasks |-> RunCtx]
    /\ last = NoEvent
    /\ hist = [accepted |-> <<>>, delivered |-> <<>>, nextval |-> 0,
               initial |-> s.count, taken |-> 0, posted |-> 0, given |-> 0]

InitObjects(prios, first, s, q) == InitFrom(Boot(prios), first, s, q)

InitAll(prios, first, s) == InitObjects(prios, first, s, InitQueue)

InitWith(prios, first) == InitAll(prios, first, rtos_semaphore_init(0, 1))

(* ---------------- scheduler core: delay, yield, suspend ---------------- *)

(* One task is created before the scheduler starts, one more at run time. *)
CorePrios == {<<2>>}

Init == \E prios \in CorePrios : InitWith(prios, 0)

(* The application creates one task at run time. *)
TaskCreateOnce(t, priority) ==
    /\ Cardinality({i \in Tasks : tcb[i].used}) < 3
    /\ TaskCreate(t, RTOS_DEFAULT_TASK_STACK_SIZE, priority)

Next ==
    \/ PendSV
    \/ Tick
    \/ \E t \in UserTasks : Yield(t)
    \/ \E t \in UserTasks, ticks \in 1 .. MaxDelay : DelayTicks(t, ticks)
    \/ \E t \in UserTasks : YieldAfterCritical(t)
    \/ \E t \in UserTasks, priority \in 1 .. 3 : TaskCreateOnce(t, priority)
    \/ \E t \in UserTasks, target \in UserTasks : TaskSuspend(t, target)
    \/ \E t \in UserTasks, target \in UserTasks : TaskResume(t, target)
    \/ \E t \in UserTasks : TaskResumeReady(t)

Spec == Init /\ [][Next]_vars

(* ----------------------- applications as programs ---------------------- *)

(* A program is a sequence of API calls; the task suspends itself when it
   has made them all.  Timeouts and delays are chosen at each call. *)
Ins(o, x) == [op |-> o, obj |-> x]

Instr(P, t) ==
    IF ip[t] \in 1 .. Len(P[t]) THEN P[t][ip[t]] ELSE Ins("end", NULL)

Sleep(P, t, ticks) == Instr(P, t).op = "delay" /\ DelayTicks(t, ticks)

Lock(P, t, timeout_ticks) ==
    Instr(P, t).op = "lock" /\ MutexLock(t, Instr(P, t).obj, timeout_ticks)

Unlock(P, t) == Instr(P, t).op = "unlock" /\ MutexUnlock(t, Instr(P, t).obj)

Pass(P, t) == Instr(P, t).op = "yield" /\ Yield(t)

Finish(P, t) == ip[t] = Len(P[t]) + 1 /\ TaskSuspend(t, t)

(* The steps of an application that uses delays, yields and mutexes. *)
NextApp(P) ==
    \/ PendSV
    \/ Tick
    \/ \E t \in UserTasks, ticks \in 1 .. MaxDelay : Sleep(P, t, ticks)
    \/ \E t \in UserTasks : Pass(P, t)
    \/ \E t \in UserTasks : YieldAfterCritical(t)
    \/ \E t \in UserTasks : TimedBlock(t)
    \/ \E t \in UserTasks : UnblockWaiter(t)
    \/ \E t \in UserTasks : ReturnAfterUnblock(t)
    \/ \E t \in UserTasks, timeout_ticks \in Timeouts : Lock(P, t, timeout_ticks)
    \/ \E t \in UserTasks : MutexLockAfter(t)
    \/ \E t \in UserTasks : Unlock(P, t)
    \/ \E t \in UserTasks : Finish(P, t)

(* ------------------- mutexes with priority inheritance ----------------- *)

(* Three tasks L, M, H of priorities 1, 2, 3 and two mutexes, after
   test_mutex_priority_inheritance.c: L takes mutex 1 (twice, nested) and
   inside it mutex 2; M takes mutex 2; H takes mutex 1; M and H sleep
   first, so that L runs. *)
MutexPrios == <<1, 2, 3>>

MutexApp ==
    [t \in Tasks |->
        CASE t = 2 -> <<Ins("lock", 1), Ins("lock", 1), Ins("lock", 2),
                        Ins("unlock", 2), Ins("unlock", 1), Ins("unlock", 1)>>
          [] t = 3 -> <<Ins("delay", NULL), Ins("lock", 2), Ins("delay", NULL),
                        Ins("unlock", 2), Ins("yield", NULL)>>
          [] t = 4 -> <<Ins("delay", NULL), Ins("delay", NULL), Ins("lock", 1),
                        Ins("unlock", 1)>>
          [] OTHER -> <<>>]

InitMutexes == InitWith(MutexPrios, 1)

NextMutexes == NextApp(MutexApp)

SpecMutexes == InitMutexes /\ [][NextMutexes]_vars

(* ---------------- a waiter that inherits while it waits ---------------- *)

(* H takes mutex 2 and sleeps; M and L queue up for mutex 2, L holding
   mutex 1; H then tries mutex 1 and gives mutex 2 back. *)
WakeApp ==
    [t \in Tasks |->
        CASE t = 2 -> <<Ins("lock", 1), Ins("lock", 2), Ins("unlock", 2),
                        Ins("unlock", 1)>>
          [] t = 3 -> <<Ins("lock", 2), Ins("unlock", 2), Ins("yield", NULL)>>
          [] t = 4 -> <<Ins("lock", 2), Ins("delay", NULL), Ins("lock", 1),
                        Ins("unlock", 2), Ins("unlock", 1)>>
          [] OTHER -> <<>>]

InitWake == InitWith(MutexPrios, 1)

NextWake == NextApp(WakeApp)

SpecWake == InitWake /\ [][NextWake]_vars

(* ------------------------ a cycle of mutex owners ---------------------- *)

(* L takes mutex 1 and then mutex 2; M takes mutex 2 and then mutex 1; H
   sleeps and then asks for mutex 1.  When L and M each hold one mutex and
   wait for the other, the owners form a cycle.  L and M wait without a
   timeout, H with any; every delay is of one tick. *)
CycleApp ==
    [t \in Tasks |->
        CASE t = 2 -> <<Ins("lock", 1), Ins("delay", NULL), Ins("lock", 2),
                        Ins("unlock", 2), Ins("unlock", 1)>>
          [] t = 3 -> <<Ins("delay", NULL), Ins("lock", 2), Ins("lock", 1),
                        Ins("unlock", 1), Ins("unlock", 2)>>
          [] t = 4 -> <<Ins("delay", NULL), Ins("delay", NULL), Ins("lock", 1),
                        Ins("unlock", 1)>>
          [] OTHER -> <<>>]

InitCycle == InitWith(MutexPrios, 1)

NextCycle ==
    \/ PendSV
    \/ Tick
    \/ \E t \in UserTasks : Sleep(CycleApp, t, 1)
    \/ \E t \in UserTasks : YieldAfterCritical(t)
    \/ \E t \in UserTasks : TimedBlock(t)
    \/ \E t \in UserTasks : UnblockWaiter(t)
    \/ \E t \in UserTasks : ReturnAfterUnblock(t)
    \/ \E t \in {2, 3} : Lock(CycleApp, t, RTOS_MAX_WAIT)
    \/ \E timeout_ticks \in Timeouts : Lock(CycleApp, 4, timeout_ticks)
    \/ \E t \in UserTasks : MutexLockAfter(t)
    \/ \E t \in UserTasks : Unlock(CycleApp, t)
    \/ \E t \in UserTasks : Finish(CycleApp, t)

SpecCycle == InitCycle /\ [][NextCycle]_vars

(* ----------------------- tasks of equal priority ----------------------- *)

(* Three tasks of priority 2 share mutex 1: A takes it, yields, and gives it
   back; B and C ask for it, with a timeout of any kind. *)
PeerPrios == <<2, 2, 2>>

PeerApp ==
    [t \in Tasks |->
        CASE t = 2 -> <<Ins("lock", 1), Ins("yield", NULL), Ins("unlock", 1)>>
          [] t \in {3, 4} -> <<Ins("lock", 1), Ins("unlock", 1)>>
          [] OTHER -> <<>>]

InitPeers == InitWith(PeerPrios, 1)

(* All the steps task t of PeerApp can take. *)
PeerStep(t) ==
    \/ Pass(PeerApp, t)
    \/ YieldAfterCritical(t)
    \/ TimedBlock(t)
    \/ UnblockWaiter(t)
    \/ ReturnAfterUnblock(t)
    \/ \E timeout_ticks \in Timeouts : Lock(PeerApp, t, timeout_ticks)
    \/ MutexLockAfter(t)
    \/ Unlock(PeerApp, t)
    \/ Finish(PeerApp, t)

NextPeers ==
    \/ PendSV
    \/ Tick
    \/ \E t \in UserTasks : PeerStep(t)

(* The hardware takes a pending PendSV and keeps the tick coming; a task
   that the CPU executes makes progress. *)
SpecPeers ==
    /\ InitPeers /\ [][NextPeers]_vars
    /\ WF_vars(PendSV) /\ WF_vars(Tick)
    /\ \A t \in UserTasks : SF_vars(PeerStep(t))

(* ------------------------- producer and consumer ----------------------- *)

(* A producer and a consumer on the queue: the producer makes MaxItems
   calls of rtos_queue_send, the consumer MaxItems calls of
   rtos_queue_receive, all with RTOS_MAX_DELAY.  Both have priority 2, or
   one of them has priority 3. *)
PipePrios == {<<2, 2>>, <<2, 3>>, <<3, 2>>}

Producer == 2

Consumer == 3

PipeApp ==
    [t \in Tasks |->
        CASE t = Producer -> [i \in 1 .. MaxItems |-> Ins("send", QueueAddr)]
          [] t = Consumer -> [i \in 1 .. MaxItems |-> Ins("receive", QueueAddr)]
          [] OTHER -> <<>>]

Send(P, t, timeout_ticks) ==
    Instr(P, t).op = "send" /\ QueueSend(t, timeout_ticks)

Receive(P, t, timeout_ticks) ==
    Instr(P, t).op = "receive" /\ QueueReceive(t, timeout_ticks)

InitPipe == \E prios \in PipePrios : InitWith(prios, 1)

(* All the steps task t of the pipe can take. *)
PipeStep(t) ==
    \/ Send(PipeApp, t, RTOS_MAX_DELAY)
    \/ Receive(PipeApp, t, RTOS_MAX_DELAY)
    \/ QueueSendAfter(t)
    \/ QueueReceiveAfter(t)
    \/ YieldAfterCritical(t)
    \/ UnblockWaiter(t)
    \/ ReturnAfterUnblock(t)
    \/ Finish(PipeApp, t)

NextPipe ==
    \/ PendSV
    \/ Tick
    \/ \E t \in UserTasks : Send(PipeApp, t, RTOS_MAX_DELAY)
    \/ \E t \in UserTasks : Receive(PipeApp, t, RTOS_MAX_DELAY)
    \/ \E t \in UserTasks : QueueSendAfter(t)
    \/ \E t \in UserTasks : QueueReceiveAfter(t)
    \/ \E t \in UserTasks : YieldAfterCritical(t)
    \/ \E t \in UserTasks : UnblockWaiter(t)
    \/ \E t \in UserTasks : ReturnAfterUnblock(t)
    \/ \E t \in UserTasks : Finish(PipeApp, t)

SpecPipe ==
    /\ InitPipe /\ [][NextPipe]_vars
    /\ WF_vars(PendSV) /\ WF_vars(Tick)
    /\ \A t \in UserTasks : SF_vars(PipeStep(t))

(* ---------------------- senders and receivers at will ------------------ *)

(* Two senders of priorities 1 and 2 and a receiver of priority 3 that also
   sleeps, as the tasks of test_queue_blocking.c do; every call with a
   timeout of any kind. *)
QueuePrios == <<1, 2, 3>>

Senders == {2, 3}

Receivers == {4}

InitQueueApp == InitWith(QueuePrios, 0)

NextQueueApp ==
    \/ PendSV
    \/ Tick
    \/ \E t \in Receivers, ticks \in 1 .. MaxDelay : DelayTicks(t, ticks)
    \/ \E t \in Senders, timeout_ticks \in Timeouts : QueueSend(t, timeout_ticks)
    \/ \E t \in Receivers, timeout_ticks \in Timeouts :
           QueueReceive(t, timeout_ticks)
    \/ \E t \in UserTasks : QueueSendAfter(t)
    \/ \E t \in UserTasks : QueueReceiveAfter(t)
    \/ \E t \in UserTasks : YieldAfterCritical(t)
    \/ \E t \in UserTasks : TimedBlock(t)
    \/ \E t \in UserTasks : UnblockWaiter(t)
    \/ \E t \in UserTasks : ReturnAfterUnblock(t)

SpecQueue == InitQueueApp /\ [][NextQueueApp]_vars

(* ------------------ delays across the wrap of the ticks ---------------- *)

(* Two tasks of priorities 1 and 2 that sleep for any number of ticks short
   of a whole turn of the tick counter, which has one value more than in
   the other applications so that a delay of two ticks can cross its wrap;
   each task reads the tick count when rtos_delay_ticks returns. *)
DelayPrios == <<1, 2>>

InitDelays ==
    InitFrom([Boot(DelayPrios) EXCEPT !.tick_wrap = TickWrap + 1], 0,
             rtos_semaphore_init(0, 1), InitQueue)

(* rtos_delay_ticks(ticks): the critical section; ctx keeps the argument
   and counts the ticks since the call. *)
DelayCall(t, ticks) ==
    /\ AtRun(t)
    /\ Commit(rtos_scheduler_add_to_delayed_list(
                  [K EXCEPT !.tcb[t].state = "BLOCKED"], t, ticks))
    /\ ctx' = [ctx EXCEPT ![t] = [RunCtx EXCEPT !.pc = "yield",
                                                !.op = "delay_ticks",
                                                !.tmo = ticks, !.val = 0]]
    /\ last' = NoEvent
    /\ SyncUnchanged
    /\ Call(t)

(* rtos_delay_ticks returns and the task reads rtos_get_tick_count(). *)
DelayReturn(t) ==
    /\ Exec(t) /\ ctx[t].pc = "after" /\ ctx[t].op = "delay_ticks"
    /\ Commit(K)
    /\ ctx' = [ctx EXCEPT ![t] = RunCtx]
    /\ last' = Ret("delay_ticks", t, NULL, "OK")
    /\ SyncUnchanged
    /\ UNCHANGED ip

(* The task of the highest priority among those that the tick handler run
   on k has moved from BLOCKED to READY and that have a higher priority
   than the task the tick interrupted; NULL if there is none. *)
WokenAbove(k) ==
    LET k1 == rtos_kernel_tick_handler(k)
        woken == {h \in UserTasks :
                     /\ h # k.current_task
                     /\ k.tcb[h].state = "BLOCKED" /\ k1.tcb[h].state = "READY"
                     /\ k.tcb[h].priority > k.tcb[k.current_task].priority}
    IN IF woken = {} THEN NULL
       ELSE CHOOSE h \in woken :
                \A g \in woken : k.tcb[g].priority <= k.tcb[h].priority

(* SysTick_Handler, with the ticks since its call counted for every task
   inside rtos_delay_ticks (the count stops after a whole turn). *)
TickElapsed ==
    /\ kstate = "RUNNING" /\ ~hung
    /\ Commit(rtos_kernel_tick_handler(K))
    /\ last' = Ret("tick", WokenAbove(K), NULL, "none")
    /\ ctx' = [t \in Tasks |->
                 IF ctx[t].op = "delay_ticks" /\ ctx[t].val <= tick_wrap
                 THEN [ctx[t] EXCEPT !.val = @ + 1] ELSE ctx[t]]
    /\ SyncUnchanged
    /\ UNCHANGED ip

NextDelays ==
    \/ PendSV
    \/ TickElapsed
    \/ \E t \in UserTasks, ticks \in 1 .. TickWrap : DelayCall(t, ticks)
    \/ \E t \in UserTasks : YieldAfterCritical(t)
    \/ \E t \in UserTasks : DelayReturn(t)

SpecDelays == InitDelays /\ [][NextDelays]_vars

(* --------------------------- software timers --------------------------- *)

(* One task that starts, stops and re-periods two timers while the tick
   runs.  rtos_tick_t has TimerWrap values, so that the signed comparison of
   ticks has a past and a future, and it is even, so that every period
   divides it and a whole number of periods stays one after a wrap.  Timer 1 reloads itself and its callback may call the timer
   API; timer 2 runs once and its callback only returns. *)
TimerWrap == 2 * (TickWrap + 1)

TimerPeriods == {1, 2}

TimerPrios == <<1>>

TimerCallbacks ==
    {NoCallback} \cup
    [op : {"start", "stop", "change_period"}, handle : Timers,
     period_ticks : {2}]

InitTimers ==
    \E period \in TimerPeriods, callback \in TimerCallbacks :
        InitFrom([Boot(TimerPrios) EXCEPT
                      !.tick_wrap = TimerWrap,
                      !.timer = [i \in Timers |->
                          IF i = 1
                          THEN rtos_timer_create(period, "AUTO_RELOAD", callback)
                          ELSE rtos_timer_create(2, "ONE_SHOT", NoCallback)]],
                 0, rtos_semaphore_init(0, 1), InitQueue)

(* rtos_timer_start(tm) called by task t: one critical section. *)
TimerStart(t, tm) ==
    /\ AtRun(t)
    /\ Commit(rtos_timer_start(K, tm))
    /\ last' = Ret("timer_start", t, tm, "SUCCESS")
    /\ UNCHANGED ctx /\ SyncUnchanged
    /\ Call(t)

(* rtos_timer_stop(tm) called by task t. *)
TimerStop(t, tm) ==
    /\ AtRun(t)
    /\ Commit(rtos_timer_stop(K, tm))
    /\ last' = Ret("timer_stop", t, tm, "SUCCESS")
    /\ UNCHANGED ctx /\ SyncUnchanged
    /\ Call(t)

(* rtos_timer_change_period(tm, new_period) called by task t. *)
TimerChangePeriod(t, tm, new_period) ==
    /\ AtRun(t)
    /\ Commit(rtos_timer_change_period(K, tm, new_period))
    /\ last' = Ret("timer_change_period", t, tm,
                   IF new_period = 0 THEN "INVALID_PARAM" ELSE "SUCCESS")
    /\ UNCHANGED ctx /\ SyncUnchanged
    /\ Call(t)

NextTimers ==
    \/ Tick
    \/ \E t \in UserTasks, tm \in Timers : TimerStart(t, tm)
    \/ \E t \in UserTasks, tm \in Timers : TimerStop(t, tm)
    \/ \E t \in UserTasks, p \in TimerPeriods \cup {0} :
           TimerChangePeriod(t, 1, p)

SpecTimers == InitTimers /\ [][NextTimers]_vars

(* ------------------- a queue with more waiters than slots -------------- *)

(* A queue of one slot, with two tasks that may send and two that may
   receive, so that more tasks wait on one side than the queue has slots;
   the receivers have the higher priorities, or the senders. *)
SlotPrios == {<<1, 2, 3>>, <<3, 2, 1>>}

SlotSenders == {2, 3}

SlotReceivers == {3, 4}

(* Try once, wait for ever, or give up after one tick. *)
SlotTimeouts == {RTOS_NO_WAIT, RTOS_MAX_DELAY, 1}

InitSlots ==
    \E prios \in SlotPrios :
        InitObjects(prios, 0, rtos_semaphore_init(0, 1), rtos_queue_init(1))

NextSlots ==
    \/ PendSV
    \/ Tick
    \/ \E t \in SlotSenders, timeout_ticks \in SlotTimeouts :
           QueueSend(t, timeout_ticks)
    \/ \E t \in SlotReceivers, timeout_ticks \in SlotTimeouts :
           QueueReceive(t, timeout_ticks)
    \/ \E t \in UserTasks : QueueSendAfter(t)
    \/ \E t \in UserTasks : QueueReceiveAfter(t)
    \/ \E t \in UserTasks : YieldAfterCritical(t)
    \/ \E t \in UserTasks : TimedBlock(t)
    \/ \E t \in UserTasks : UnblockWaiter(t)
    \/ \E t \in UserTasks : ReturnAfterUnblock(t)

SpecSlots == InitSlots /\ [][NextSlots]_vars

(* --------------------------- recursive locking ------------------------- *)

(* One task that locks and unlocks mutex 1 as often as it likes, up to the
   deepest recursion and beyond. *)
InitRecursion == InitWith(<<1>>, 0)

NextRecursion ==
    \/ Tick
    \/ \E t \in UserTasks, timeout_ticks \in {RTOS_NO_WAIT, RTOS_MAX_WAIT} :
           MutexLock(t, 1, timeout_ticks)
    \/ \E t \in UserTasks : MutexUnlock(t, 1)

SpecRecursion == InitRecursion /\ [][NextRecursion]_vars

(* ------------------------ a send that times out ------------------------ *)

(* A queue of one slot and two senders that never receive: a sender fills
   the queue, and every further send finds it full and gives up at once or
   after 1 .. TickWrap ticks.  rtos_tick_t has TickWrap + 1 values, so that
   the longest timeout crosses the wrap. *)
InitSendTimeout ==
    \E prios \in SlotPrios :
        InitFrom([Boot(prios) EXCEPT !.tick_wrap = TickWrap + 1], 0,
                 rtos_semaphore_init(0, 1), rtos_queue_init(1))

(* SysTick_Handler, with the ticks since its call counted for every task
   inside a call that waits (the count stops after a whole turn). *)
TickSince ==
    /\ kstate = "RUNNING" /\ ~hung
    /\ Commit(rtos_kernel_tick_handler(K))
    /\ last' = NoEvent
    /\ ctx' = [t \in Tasks |->
                 IF ctx[t].op \in WaitOps /\ ctx[t].since <= tick_wrap
                 THEN [ctx[t] EXCEPT !.since = @ + 1] ELSE ctx[t]]
    /\ SyncUnchanged
    /\ UNCHANGED ip

NextSendTimeout ==
    \/ PendSV
    \/ TickSince
    \/ \E t \in SlotSenders, timeout_ticks \in 0 .. TickWrap :
           QueueSend(t, timeout_ticks)
    \/ \E t \in UserTasks : QueueSendAfter(t)
    \/ \E t \in UserTasks : YieldAfterCritical(t)
    \/ \E t \in UserTasks : TimedBlock(t)

SpecSendTimeout == InitSendTimeout /\ [][NextSendTimeout]_vars

(* ----------------------------- queue reset ----------------------------- *)

(* The queue of one slot with its two senders, which wait for room for
   ever, and a third task of the highest priority that resets the queue,
   sleeps, and suspends and resumes the senders. *)
InitReset ==
    InitObjects(<<1, 2, 3>>, 0, rtos_semaphore_init(0, 1), rtos_queue_init(1))

NextReset ==
    \/ PendSV
    \/ Tick
    \/ \E t \in SlotSenders : QueueSend(t, RTOS_MAX_DELAY)
    \/ \E t \in UserTasks \ SlotSenders : QueueReset(t)
    \/ \E t \in UserTasks \ SlotSenders : DelayTicks(t, 1)
    \/ \E t \in UserTasks \ SlotSenders, target \in SlotSenders :
           TaskSuspend(t, target)
    \/ \E t \in UserTasks \ SlotSenders, target \in SlotSenders :
           TaskResume(t, target)
    \/ \E t \in UserTasks : TaskResumeReady(t)
    \/ \E t \in UserTasks : QueueSendAfter(t)
    \/ \E t \in UserTasks : YieldAfterCritical(t)

SpecReset == InitReset /\ [][NextReset]_vars

(* ------------------------------ semaphore ------------------------------ *)

(* Three tasks of priorities 1, 2, 3: the two lower ones signal the
   semaphore, the two higher ones wait on it (with a timeout of any kind;
   RTOS_SEM_NO_WAIT is rtos_semaphore_try_wait), as they like; the
   semaphore is binary and empty, or counts to 2 and starts with 1. *)
SemPrios == <<1, 2, 3>>

Signallers == {2, 3}

Waiters == {3, 4}

SemInits == {<<0, 1>>, <<1, 2>>}

InitSemApp ==
    \E a \in SemInits : InitAll(SemPrios, 0, rtos_semaphore_init(a[1], a[2]))

Signal(t) == hist.posted < MaxSignals /\ SemSignal(t)

NextSemApp ==
    \/ PendSV
    \/ Tick
    \/ \E t \in Waiters, timeout_ticks \in Timeouts : SemWait(t, timeout_ticks)
    \/ \E t \in UserTasks : SemWaitAfter(t)
    \/ \E t \in Signallers : Signal(t)
    \/ \E t \in UserTasks : YieldAfterCritical(t)
    \/ \E t \in UserTasks : TimedBlock(t)
    \/ \E t \in UserTasks : UnblockWaiter(t)
    \/ \E t \in UserTasks : ReturnAfterUnblock(t)

SpecSem == InitSemApp /\ [][NextSemApp]_vars

(* ------------------ suspending a task that waits for ever -------------- *)

(* Two tasks, either one of the higher priority. The sleeper makes every
   blocking call with the infinite timeout; the waker uses the same objects
   without waiting, and suspends and resumes the sleeper. *)
SuspendPrios == {<<1, 2>>, <<2, 1>>}

Sleepers == {3}

Wakers == {2}

(* The one mutex the two tasks share. *)
SuspendMutexes == {1}

InitSuspend == \E prios \in SuspendPrios : InitWith(prios, 0)

(* The tasks do not lock a mutex they hold. *)
LockOnce(t, m, timeout_ticks) ==
    mutex[m].owner # t /\ MutexLock(t, m, timeout_ticks)

NextSuspend ==
    \/ PendSV
    \/ Tick
    \/ \E t \in Sleepers : SemWait(t, RTOS_SEM_MAX_WAIT)
    \/ \E t \in Sleepers, m \in SuspendMutexes : LockOnce(t, m, RTOS_MAX_WAIT)
    \/ \E t \in Sleepers : QueueSend(t, RTOS_MAX_DELAY)
    \/ \E t \in Sleepers : QueueReceive(t, RTOS_MAX_DELAY)
    \/ \E t \in Wakers : Signal(t)
    \/ \E t \in Wakers, m \in SuspendMutexes : LockOnce(t, m, RTOS_NO_WAIT)
    \/ \E t \in Wakers : QueueSend(t, RTOS_NO_WAIT)
    \/ \E t \in Wakers : QueueReceive(t, RTOS_NO_WAIT)
    \/ \E t \in UserTasks, m \in SuspendMutexes : MutexUnlock(t, m)
    \/ \E t \in Wakers, target \in Sleepers : TaskSuspend(t, target)
    \/ \E t \in Wakers, target \in Sleepers : TaskResume(t, target)
    \/ \E t \in UserTasks : TaskResumeReady(t)
    \/ \E t \in UserTasks : SemWaitAfter(t)
    \/ \E t \in UserTasks : MutexLockAfter(t)
    \/ \E t \in UserTasks : QueueSendAfter(t)
    \/ \E t \in UserTasks : QueueReceiveAfter(t)
    \/ \E t \in UserTasks : YieldAfterCritical(t)
    \/ \E t \in UserTasks : UnblockWaiter(t)
    \/ \E t \in UserTasks : ReturnAfterUnblock(t)

SpecSuspend == InitSuspend /\ [][NextSuspend]_vars

(* --- the scheduler tests: test_scheduler_cooperative.c, test_scheduler_rr.c --- *)

(* The two builds: RTOS_SCHEDULER_TYPE and the priorities of the three tasks
   that main() creates. *)
SchedBuilds == {"COOPERATIVE", "ROUND_ROBIN"}

SchedPrios == [COOPERATIVE |-> <<2, 3, 4>>, ROUND_ROBIN |-> <<2, 2, 2>>]

InitSched ==
    \E type \in SchedBuilds :
        InitFrom(BootFrom([K0 EXCEPT !.rtos_scheduler_type = type],
                          SchedPrios[type]),
                 0, rtos_semaphore_init(0, 1), InitQueue)

(* rtos_task_idle_function of a cooperative build: wfi, then rtos_yield().
   wfi is a hint and may return at any time. *)
IdleYield ==
    /\ kstate = "RUNNING" /\ ~hung /\ ~pendsv
    /\ current_task = Idle
    /\ rtos_scheduler_type = "COOPERATIVE"
    /\ Commit([K EXCEPT !.pendsv = TRUE])
    /\ last' = NoEvent
    /\ UNCHANGED ctx /\ SyncUnchanged
    /\ UNCHANGED ip

(* The tasks delay and yield; two of them signal a semaphore that two of
   them wait for. *)
NextSched ==
    \/ PendSV
    \/ Tick
    \/ IdleYield
    \/ \E t \in UserTasks : Yield(t)
    \/ \E t \in UserTasks, ticks \in 1 .. MaxDelay : DelayTicks(t, ticks)
    \/ \E t \in Waiters : SemWait(t, RTOS_SEM_MAX_WAIT)
    \/ \E t \in Signallers : Signal(t)
    \/ \E t \in UserTasks : SemWaitAfter(t)
    \/ \E t \in UserTasks : YieldAfterCritical(t)
    \/ \E t \in UserTasks : UnblockWaiter(t)
    \/ \E t \in UserTasks : ReturnAfterUnblock(t)

(* The hardware takes a pending PendSV and keeps the tick coming; SysTick
   ends every wfi, so the idle loop of a cooperative build, once it runs,
   goes on to its rtos_yield(). *)
SpecSched ==
    /\ InitSched /\ [][NextSched]_vars
    /\ WF_vars(PendSV) /\ WF_vars(Tick) /\ WF_vars(IdleYield)

(* ------------------------ the lists, as they are ----------------------- *)

(* The TCBs met by following `next` from head, for at most fuel hops. *)
RECURSIVE NextWalk(_, _)
NextWalk(cur, fuel) ==
    IF cur = NULL \/ fuel = 0 THEN <<>>
    ELSE <<cur>> \o NextWalk(tcb[cur].next, fuel - 1)

(* The same over `next_waiting`. *)
RECURSIVE WaitWalk(_, _)
WaitWalk(cur, fuel) ==
    IF cur = NULL \/ fuel = 0 THEN <<>>
    ELSE <<cur>> \o WaitWalk(tcb[cur].next_waiting, fuel - 1)

SeqSet(q) == {q[i] : i \in 1 .. Len(q)}

(* A list of n TCBs ends within n hops; a walk of n + 1 hops that meets no
   TCB twice and ends is a list without a cycle. *)
NoRepeat(q) ==
    /\ Len(q) <= Cardinality(Tasks)
    /\ \A i, j \in 1 .. Len(q) : i # j => q[i] # q[j]

ReadyWalk(p) == NextWalk(ready_lists[p], Cardinality(Tasks) + 1)
DelayedWalk == NextWalk(delayed_list, Cardinality(Tasks) + 1)

(* The scheduler lists, by name, that hold task t. *)
SchedListsOf(t) ==
    {p \in Priorities : t \in SeqSet(ReadyWalk(p))}
        \cup (IF t \in SeqSet(DelayedWalk) THEN {"delayed"} ELSE {})

InReadyList(t) == \E p \in Priorities : t \in SeqSet(ReadyWalk(p))

(* The wait lists of the application's objects, by name. *)
WaitListNames ==
    {<<"mutex", m>> : m \in Mutexes}
        \cup {<<"sem", SemAddr>>, <<"sender", QueueAddr>>,
              <<"receiver", QueueAddr>>}

WaitHead(n) ==
    CASE n[1] = "mutex" -> mutex[n[2]].waiting_list
      [] n[1] = "sem" -> sem.waiting_list
      [] n[1] = "sender" -> queue.sender_wait_list
      [] OTHER -> queue.receiver_wait_list

WaitListOf(n) == WaitWalk(WaitHead(n), Cardinality(Tasks) + 1)

WaitListsOf(t) == {n \in WaitListNames : t \in SeqSet(WaitListOf(n))}

UsedTasks == {t \in Tasks : tcb[t].used}

(* A critical-section boundary: the kernel runs and the CPU is not stuck
   inside a critical section. *)
AtBoundary == kstate = "RUNNING" /\ ~hung

(* ------------------------------- claims -------------------------------- *)

(* C1: at every critical-section boundary every task is in at most one
   scheduler list (a ready FIFO or the delayed list), every scheduler list
   holds each task at most once (no cycle), the Running task is in no
   scheduler list, and every task is in at most one wait list. *)
C1_ListMembership ==
    AtBoundary =>
        /\ \A t \in UsedTasks : Cardinality(SchedListsOf(t)) <= 1
        /\ \A p \in Priorities : NoRepeat(ReadyWalk(p))
        /\ NoRepeat(DelayedWalk)
        /\ \A t \in UsedTasks : tcb[t].state = "RUNNING" => SchedListsOf(t) = {}
        /\ \A t \in UsedTasks : Cardinality(WaitListsOf(t)) <= 1

(* C3: from the start of the scheduler, at every critical-section boundary
   exactly one task has state Running, and it is the kernel's current
   task. *)
C3_ExactlyOneRunning ==
    AtBoundary =>
        /\ Cardinality({t \in UsedTasks : tcb[t].state = "RUNNING"}) = 1
        /\ current_task # NULL
        /\ tcb[current_task].state = "RUNNING"

(* C4: under preemptive static priority, while a task executes task code
   and no context switch is pending, no task of a strictly higher current
   priority is Ready. *)
C4_NoHigherReady ==
    (AtBoundary /\ ~pendsv /\ current_task # NULL
     /\ ctx[current_task].pc = "run") =>
        \A u \in UsedTasks :
            tcb[u].state = "READY" =>
                tcb[u].priority <= tcb[current_task].priority

(* The owners that priority inheritance must reach from mutex m: its
   owner, and while an owner is Blocked on a mutex, that mutex's owner, for
   at most depth owners. *)
RECURSIVE ChainOwners(_, _)
ChainOwners(m, depth) ==
    LET o == mutex[m].owner
    IN IF o = NULL \/ depth = 0 THEN {}
       ELSE {o} \cup
            (IF /\ tcb[o].state = "BLOCKED"
                /\ tcb[o].blocked_on_type = "MUTEX"
                /\ tcb[o].blocked_on # NULL
             THEN ChainOwners(tcb[o].blocked_on, depth - 1)
             ELSE {})

(* Task h, running task code, makes the step that puts it on the waiting
   list of a mutex. *)
BlocksOnMutex(h) ==
    /\ AtRun(h)
    /\ ctx'[h].op = "mutex_lock"
    /\ ctx'[h].pc \in {"block", "yield"}

(* C8: when a task H is put on the waiting list of a mutex owned by L, and L
   is Blocked on a mutex owned by M (and so on along the chain, up to the
   guard depth), then at the end of that critical section the priority of
   every owner of the chain is at least H's. *)
C8_TransitiveInheritance ==
    [][\A h \in UserTasks :
          BlocksOnMutex(h) =>
              \A o \in ChainOwners(ctx'[h].obj, PIP_MAX_DEPTH) :
                  tcb'[o].priority >= tcb[h].priority]_vars

(* H (priority 3) waits for a mutex whose owner L (base priority 1) is
   Blocked on a mutex owned by M (base priority 2), and M runs at 3. *)
C8_Witness ==
    \E h, l, o \in UserTasks :
        /\ ctx[h].op = "mutex_lock" /\ ctx[h].pc \in {"block", "yield"}
        /\ tcb[h].blocked_on = ctx[h].obj
        /\ mutex[ctx[h].obj].owner = l
        /\ tcb[l].state = "BLOCKED" /\ tcb[l].blocked_on_type = "MUTEX"
        /\ mutex[tcb[l].blocked_on].owner = o
        /\ tcb[h].priority = 3
        /\ tcb[l].base_priority = 1
        /\ tcb[o].base_priority = 2 /\ tcb[o].priority = 3

(* Task t, running task code, calls rtos_mutex_unlock(m) in MutexApp. *)
UnlockCall(t, m) ==
    /\ AtRun(t)
    /\ Instr(MutexApp, t) = Ins("unlock", m)
    /\ ip'[t] # ip[t]

(* Task w is inside rtos_mutex_lock(m), was put on the waiting list, and
   has been taken off it by an unlock. *)
Granted(w, m) ==
    /\ ctx[w].op = "mutex_lock" /\ ctx[w].obj = m
    /\ ctx[w].pc \in {"block", "yield", "after"}
    /\ tcb[w].blocked_on # m

(* C9: the final unlock of a mutex with waiters hands it over in the same
   critical section: the owner becomes the head waiter with lock_count 1
   and the mutex is never free; until that waiter's rtos_mutex_lock returns
   nobody else owns the mutex, and the call returns success. *)
C9_OwnershipHandoff ==
    [][\A m \in Mutexes :
          /\ \A t \in UserTasks :
                (/\ UnlockCall(t, m)
                 /\ mutex[m].owner = t /\ mutex[m].lock_count = 1
                 /\ mutex[m].waiting_list # NULL) =>
                    /\ mutex'[m].owner = mutex[m].waiting_list
                    /\ mutex'[m].lock_count = 1
                    /\ tcb'[mutex[m].waiting_list].blocked_on # m
          /\ \A w \in UserTasks :
                Granted(w, m) =>
                    /\ mutex[m].owner = w /\ mutex[m].lock_count = 1
                    /\ mutex'[m].owner = w
                    /\ ctx'[w].pc = "run" =>
                           last' = Ret("mutex_lock", w, m, "OK")]_vars

(* A waiter that was handed the mutex has returned from rtos_mutex_lock
   with success and owns it. *)
C9_Witness ==
    \E w \in UserTasks, m \in Mutexes :
        /\ last = Ret("mutex_lock", w, m, "OK")
        /\ ctx[w].pc = "run"
        /\ mutex[m].owner = w /\ mutex[m].lock_count = 1
        /\ \E t \in UserTasks \ {w} :
              /\ ip[t] - 1 \in 1 .. Len(MutexApp[t])
              /\ MutexApp[t][ip[t] - 1] = Ins("unlock", m)

(* C10 (its first half): when a wait list gives up a waiter to a wake-up
   (the waiter leaves the list by a step of another task), no task that
   stays on that list has a higher current priority. *)
C10_WakeHighestPriority ==
    [][\A n \in WaitListNames : \A w \in SeqSet(WaitListOf(n)) :
          (current_task # w /\ w \notin SeqSet(WaitListOf(n))') =>
              \A u \in SeqSet(WaitListOf(n)) :
                  tcb[u].priority <= tcb[w].priority]_vars

(* C2: at every critical-section boundary every task whose state is Ready
   is in the ready list: no operation on one task takes another Ready task
   out of it. *)
C2_ReadyTasksListed ==
    AtBoundary => \A t \in UsedTasks : tcb[t].state = "READY" => InReadyList(t)

(* Task t is inside rtos_mutex_lock(m, RTOS_MAX_WAIT) and has been put on
   the waiting list: no timeout can end its wait. *)
BlockedInLock(t, m) ==
    /\ ctx[t].op = "mutex_lock" /\ ctx[t].obj = m
    /\ ctx[t].pc \in {"yield", "after"}
    /\ ctx[t].tmo = RTOS_MAX_WAIT

(* Task t owns the mutex it asked for and executes again. *)
OwnsAndRuns(t, m) ==
    mutex[m].owner = t /\ current_task = t /\ tcb[t].state = "RUNNING"

(* C5: with an acyclic wait-for graph (PeerApp has one mutex) and owners
   that unlock whenever they run, every task blocked in rtos_mutex_lock
   eventually owns the mutex and runs again.  Stated for the waiters the
   claim covers in every reading, those that wait without a timeout. *)
C5_BlockedEventuallyOwns ==
    \A t \in UserTasks : \A m \in Mutexes :
        BlockedInLock(t, m) ~> OwnsAndRuns(t, m)

(* s is a prefix of q. *)
IsPrefix(s, q) == Len(s) <= Len(q) /\ \A i \in 1 .. Len(s) : s[i] = q[i]

(* C7: the payloads returned by the successful rtos_queue_receive calls are
   at all times a prefix of the payloads accepted by the successful
   rtos_queue_send calls, in the order of acceptance. *)
C7_DeliveredPrefixOfAccepted == IsPrefix(hist.delivered, hist.accepted)

(* Two payloads accepted from senders and delivered, the second after the
   read pointer wrapped or a sender waited on the full queue. *)
C7_Witness ==
    /\ Len(hist.delivered) >= QueueLength + 1
    /\ last.ev = "queue_receive" /\ last.st = "OK"

(* Every call of the producer and of the consumer has returned success. *)
PipeDone ==
    /\ Len(hist.accepted) = MaxItems /\ Len(hist.delivered) = MaxItems
    /\ ip[Producer] > MaxItems /\ ctx[Producer].pc = "run"
    /\ ip[Consumer] > MaxItems /\ ctx[Consumer].pc = "run"

(* C6: with a producer and a consumer of priority 2 that use the infinite
   timeout, every send and every receive eventually returns success. *)
C6_PipeCompletes ==
    (tcb[Producer].priority = 2 /\ tcb[Consumer].priority = 2) => <>PipeDone

(* C11: at every instant the number of rtos_semaphore_wait /
   rtos_semaphore_try_wait calls that have returned success is at most the
   initial count plus the number of rtos_semaphore_signal calls that have
   already returned. *)
C11_WaitsWithinSignalsReturned == hist.taken <= hist.initial + hist.given

(* C11, amended: ... plus the number of rtos_semaphore_signal calls that
   have completed their critical section (woken a waiter or incremented
   the count). *)
C11_WaitsWithinSignalsMade == hist.taken <= hist.initial + hist.posted

(* Every unit given so far was taken, the last one by a waiter whose
   rtos_semaphore_wait returned before the signal that woke it did. *)
C11_Witness ==
    /\ hist.taken = hist.initial + hist.posted
    /\ hist.given < hist.posted
    /\ last.ev = "sem_wait" /\ last.st = "OK"

(* Task t, running task code, makes the step that is the critical section
   of rtos_semaphore_signal. *)
SignalCall(t) ==
    /\ AtRun(t)
    /\ \/ last'.ev = "sem_handoff"
       \/ last'.ev = "sem_signal" /\ last'.task = t

(* Task w is inside a rtos_semaphore_wait that put it on the wait list, and
   a signal has taken it off the list. *)
SemGranted(w) ==
    /\ ctx[w].op = "sem_wait"
    /\ ctx[w].pc \in {"block", "yield", "after"}
    /\ tcb[w].blocked_on # SemAddr

(* C12: rtos_semaphore_signal with a non-empty wait list leaves the count
   unchanged and takes exactly the head off the list; the
   rtos_kernel_task_unblock that follows leaves that waiter Ready; the
   waiter's rtos_semaphore_wait returns success; and the count grows only
   when the wait list is empty. *)
C12_SignalHandsOver ==
    [][/\ \A t \in UserTasks :
             (SignalCall(t) /\ sem.waiting_list # NULL) =>
                 /\ sem'.count = sem.count
                 /\ sem'.waiting_list = tcb[sem.waiting_list].next_waiting
                 /\ SeqSet(WaitListOf(<<"sem", SemAddr>>)') =
                        SeqSet(WaitListOf(<<"sem", SemAddr>>))
                            \ {sem.waiting_list}
                 /\ tcb'[sem.waiting_list].blocked_on = NULL
                 /\ ctx'[t].pc = "unblock" /\ ctx'[t].wk = sem.waiting_list
       /\ \A t \in UserTasks :
             (Exec(t) /\ ctx[t].pc = "unblock" /\ ctx[t].op = "sem_signal"
              /\ ctx'[t].pc = "ret") =>
                 /\ ~hung'
                 /\ tcb'[ctx[t].wk].state = "READY"
       /\ \A w \in UserTasks :
             (SemGranted(w) /\ ctx'[w].pc = "run") =>
                 last' = Ret("sem_wait", w, SemAddr, "OK")
       /\ sem'.count > sem.count => sem.waiting_list = NULL]_vars

(* C13: whenever no task is inside a critical section, a full queue has no
   task on its receiver wait list and an empty queue has no task on its
   sender wait list. *)
C13_QueueWaitLists ==
    /\ queue.count = queue.length => queue.receiver_wait_list = NULL
    /\ queue.count = 0 => queue.sender_wait_list = NULL

(* Task w blocked in the queue call op, a peer has taken it off the wait
   list, and it has not resumed yet. *)
WokenInQueue(w, op) ==
    /\ ctx[w].op = op
    /\ ctx[w].pc \in {"block", "yield", "after"}
    /\ tcb[w].blocked_on # QueueAddr

(* C13, amended: a full queue has a task on its receiver wait list only
   while a receiver that a send took off the list has not resumed yet, and
   an empty queue has a task on its sender wait list only while a sender
   that a receive took off the list has not resumed yet. *)
C13_WaitListsUntilResumed ==
    /\ (queue.count = queue.length /\ queue.receiver_wait_list # NULL) =>
           \E w \in UserTasks : WokenInQueue(w, "queue_receive")
    /\ (queue.count = 0 /\ queue.sender_wait_list # NULL) =>
           \E w \in UserTasks : WokenInQueue(w, "queue_send")

(* A receive has emptied a queue of one slot on which two senders waited:
   one sender is woken and has not resumed, the other is still on the
   sender wait list. *)
C13_Witness ==
    /\ queue.count = 0 /\ queue.sender_wait_list # NULL
    /\ \E w \in UserTasks : WokenInQueue(w, "queue_send")
    /\ last.ev = "queue_deliver"

(* C14: a blocking call made with the infinite timeout does not return
   Timeout. *)
C14_InfiniteNeverTimesOut ==
    [][\A t \in UserTasks :
          (/\ ctx[t].op \in WaitOps
           /\ ctx[t].tmo = RTOS_MAX_WAIT
           /\ ctx[t].pc # "run"
           /\ ctx'[t].pc = "run") => last'.st # "TIMEOUT"]_vars

(* C15: a rtos_queue_send that blocked does not return RTOS_ERROR_FULL and
   a rtos_queue_receive that blocked does not return RTOS_ERROR_EMPTY: a
   task woken by a peer finds space, respectively data, when it resumes. *)
C15_WokenFindsRoom ==
    [][\A t \in UserTasks :
          (/\ ctx[t].op \in {"queue_send", "queue_receive"}
           /\ ctx[t].tmo # RTOS_NO_WAIT
           /\ ctx[t].pc = "after"
           /\ ctx'[t].pc # "after") => last'.st \notin {"FULL", "EMPTY"}]_vars

(* C16: a task inside rtos_delay_ticks(k) is made Ready by the tick handler
   of the k-th tick after its call and by no other, whether or not its
   wake time lies beyond the wrap of the tick counter. *)
C16_ExpiryAcrossWrap ==
    [][\A d \in UserTasks :
          (/\ ctx[d].op = "delay_ticks"
           /\ tcb[d].state = "BLOCKED"
           /\ tick_count' # tick_count) =>
              (tcb'[d].state = "READY" <=> ctx'[d].val = ctx[d].tmo)]_vars

(* C17: when rtos_delay_ticks(k) returns, the tick count the task reads is
   at least k and at most k + 1 ticks past the count at the call. *)
C17_DelayLength ==
    [][\A t \in UserTasks :
          (/\ ctx[t].op = "delay_ticks"
           /\ ctx[t].pc = "after"
           /\ ctx'[t].pc = "run") =>
              (ctx[t].tmo <= ctx[t].val /\ ctx[t].val <= ctx[t].tmo + 1)]_vars

(* C18: a tick that ends the delay of a task of higher priority than the
   interrupted one pends the context switch, and when that switch has been
   made the woken task is the Running task, unless a task of still higher
   priority is Ready and runs instead. *)
C18_WokenTaskRuns ==
    [][/\ (tick_count' # tick_count /\ WokenAbove(K) # NULL) => pendsv'
       /\ (/\ last.ev = "tick" /\ last.task # NULL
           /\ pendsv /\ tick_count' = tick_count) =>
              /\ ~hung'
              /\ tcb'[current_task'].state = "RUNNING"
              /\ \/ current_task' = last.task
                 \/ tcb'[current_task'].priority > tcb[last.task].priority]_vars

(* C19: under the round-robin discipline every task that becomes Ready is
   eventually dispatched, and each of the three tasks that main() creates
   keeps being dispatched. *)
C19_RoundRobinDispatches ==
    (rtos_scheduler_type = "ROUND_ROBIN") =>
        \A t \in UserTasks : []<>(current_task = t /\ tcb[t].state = "RUNNING")

(* C20: under the cooperative discipline a tick neither pends a context
   switch nor changes the running task; a context switch is pended only by
   the running task's own rtos_yield(): the application's call, the idle
   loop's call, or the one that ends the critical section of a delay, a
   self-suspend or a blocking wait; and the running task changes only in
   the switch so pended. *)
C20_NoPreemption ==
    [][(rtos_scheduler_type = "COOPERATIVE") =>
          /\ (tick_count' # tick_count) =>
                 (pendsv' = pendsv /\ current_task' = current_task)
          /\ (pendsv' /\ ~pendsv) =>
                 \/ current_task = Idle
                 \/ ctx[current_task].pc = "run" /\ ctx' = ctx
                 \/ /\ ctx[current_task].pc = "yield"
                    /\ ctx[current_task].op \in
                           WaitOps \cup {"delay", "delay_ticks", "task_suspend"}
          /\ (current_task' # current_task) => (pendsv /\ ~pendsv')]_vars

(* A signal has returned to a running task of lower priority than the waiter
   it made Ready, and no context switch is pending. *)
C20_Witness ==
    /\ rtos_scheduler_type = "COOPERATIVE"
    /\ ~pendsv /\ ~hung
    /\ last.ev = "sem_signal" /\ last.st = "OK"
    /\ current_task = last.task
    /\ tcb[current_task].state = "RUNNING"
    /\ \E h \in UserTasks :
          /\ ctx[h].op = "sem_wait"
          /\ tcb[h].state = "READY"
          /\ tcb[h].priority > tcb[current_task].priority

(* ------------------------------ task stacks ---------------------------- *)

(* rtos_init creates the idle task and main() one task before the scheduler
   starts; the running tasks then create tasks with stacks of any size: the
   default (0), less than the minimum, not a multiple of 8, more than the
   pool has left, and the largest value of rtos_stack_size_t. *)
StackSizes == {0, 100, 130, 2048, RTOS_TOTAL_HEAP_SIZE, StackSizeWrap - 1}
StackPrios == <<1>>

InitStacks ==
    \E placement \in HeapPlacements :
        InitFrom(BootFrom([K0 EXCEPT !.g_heap_memory = placement], StackPrios),
                 0, rtos_semaphore_init(0, 1), InitQueue)

NextStacks ==
    \/ PendSV
    \/ Tick
    \/ \E t \in UserTasks, stack_size \in StackSizes, priority \in 1 .. 2 :
          TaskCreate(t, stack_size, priority)

SpecStacks == InitStacks /\ [][NextStacks]_vars

(* --------------------------- suspend and resume ------------------------ *)

(* Three tasks of priorities 1, 2 and 3.  The one in the middle delays and is
   suspended, by itself or by another task, while it is Ready, Running or
   Blocked; the two others delay and resume it. *)
ResumePrios == <<1, 2, 3>>
ResumeTargets == {3}

InitResume == InitWith(ResumePrios, 0)

NextResume ==
    \/ PendSV
    \/ Tick
    \/ \E t \in UserTasks, ticks \in 1 .. MaxDelay : DelayTicks(t, ticks)
    \/ \E t \in UserTasks : YieldAfterCritical(t)
    \/ \E t \in UserTasks, target \in ResumeTargets : TaskSuspend(t, target)
    \/ \E t \in UserTasks \ ResumeTargets, target \in ResumeTargets :
          TaskResume(t, target)
    \/ \E t \in UserTasks : TaskResumeReady(t)

SpecResume == InitResume /\ [][NextResume]_vars

(* ------------------------------ claims C21.. --------------------------- *)

(* The timer at the head of the active list is due at the tick that the
   handler is about to count: rtos_timer_tick processes its expiry. *)
ExpiresAtNextTick(e) ==
    /\ g_active_timers = e
    /\ SignedDiff(timer[e].expiry_time, (tick_count + 1) % tick_wrap,
                  tick_wrap) <= 0

(* C21: when rtos_timer_tick has finished processing an expiry of an
   auto-reload timer, the timer's expiry_time is strictly later than the
   current tick and differs from the expiry_time armed by the last
   rtos_timer_start / rtos_timer_change_period by a positive whole number
   of periods. *)
C21_ReloadWithoutDrift ==
    [][\A e \in Timers :
          ( /\ tick_count' # tick_count
            /\ ~hung'
            /\ ExpiresAtNextTick(e)
            /\ timer[e].mode = "AUTO_RELOAD" )
          => /\ SignedDiff(timer'[e].expiry_time, tick_count', tick_wrap) > 0
             /\ \E n \in 1 .. tick_wrap :
                    timer'[e].expiry_time =
                        (timer'[e].armed + n * timer'[e].period) % tick_wrap
      ]_vars

(* C22: rtos_queue_reset sets count to 0, takes every task off the sender
   wait list and makes each of them Ready, and leaves the receiver wait list
   and the blocked receivers as they were. *)
C22_ResetWakesSenders ==
    [][(last'.ev = "queue_reset" /\ ~hung') =>
          /\ queue'.count = 0
          /\ queue'.sender_wait_list = NULL
          /\ \A s \in SeqSet(WaitListOf(<<"sender", QueueAddr>>)) :
                 /\ tcb'[s].state = "READY"
                 /\ tcb'[s].blocked_on = NULL
          /\ queue'.receiver_wait_list = queue.receiver_wait_list
          /\ \A r \in SeqSet(WaitListOf(<<"receiver", QueueAddr>>)) :
                 tcb'[r] = tcb[r]
      ]_vars

(* C23: a rtos_queue_send that found the queue full and waits with a finite
   timeout of k > 0 ticks, while nobody receives from the queue or resets
   it, returns Timeout no earlier than k ticks after the call, leaves the
   count and the contents of the queue as they were, and leaves the caller
   on no wait list with blocked_on cleared. *)
C23_SendTimesOut ==
    [][\A t \in UserTasks :
          ( /\ ctx[t].op = "queue_send" /\ ctx[t].tmo > 0
            /\ last'.ev = "queue_send" /\ last'.task = t )
          => /\ last'.st = "TIMEOUT"
             /\ ctx[t].since >= ctx[t].tmo
             /\ queue'.count = queue.count
             /\ queue'.buffer = queue.buffer
             /\ tcb'[t].blocked_on = NULL
             /\ (WaitListsOf(t))' = {}
      ]_vars

(* C24: at every critical-section boundary the priority of every task is at
   least its base_priority: inheritance only raises a priority, and the
   restore puts back exactly the base priority. *)
C24_PriorityAtLeastBase ==
    AtBoundary =>
        \A t \in UsedTasks : tcb[t].priority >= tcb[t].base_priority

(* The owner of a mutex runs with the priority of a higher task that waits
   for the mutex. *)
C24_Witness ==
    /\ AtBoundary
    /\ \E m \in Mutexes, w \in UserTasks :
           /\ mutex[m].owner # NULL
           /\ tcb[w].blocked_on = m /\ tcb[w].blocked_on_type = "MUTEX"
           /\ tcb[mutex[m].owner].base_priority < tcb[w].priority
           /\ tcb[mutex[m].owner].priority = tcb[w].priority

(* C25: at every critical-section boundary every mutex has an owner exactly
   when its lock_count is not 0, and a mutex without an owner has an empty
   waiting list, also while a waiter that timed out or was suspended has
   not run yet. *)
C25_UnlockedMutexHasNoWaiters ==
    AtBoundary =>
        \A m \in Mutexes :
            /\ (mutex[m].owner = NULL) <=> (mutex[m].lock_count = 0)
            /\ (mutex[m].owner = NULL) => (mutex[m].waiting_list = NULL)

(* A task that waits with a timeout for a mutex has been made Ready by the
   tick that ended its wait, is still on the waiting list, and has not run
   yet. *)
C25_Witness ==
    /\ AtBoundary
    /\ \E m \in Mutexes, w \in UserTasks :
           /\ w \in SeqSet(WaitListOf(<<"mutex", m>>))
           /\ ctx[w].op = "mutex_lock" /\ ctx[w].tmo > 0
           /\ ctx[w].pc = "after"
           /\ tcb[w].state = "READY"
           /\ mutex[m].owner \notin {NULL, w}

(* C26: at every critical-section boundary a semaphore whose count is above
   0 has an empty waiting list, also while a waiter that timed out has not
   run yet. *)
C26_CountedSemaphoreHasNoWaiters ==
    AtBoundary => (sem.count > 0 => sem.waiting_list = NULL)

(* Two tasks are on the waiting list of the semaphore; the wait of one has
   timed out, the tick has made it Ready, and it has not run yet. *)
C26_Witness ==
    /\ AtBoundary
    /\ Len(WaitListOf(<<"sem", SemAddr>>)) = 2
    /\ \E w \in SeqSet(WaitListOf(<<"sem", SemAddr>>)) :
           /\ ctx[w].op = "sem_wait" /\ ctx[w].tmo > 0
           /\ ctx[w].pc = "after"
           /\ tcb[w].state = "READY"

(* Task t calls rtos_mutex_unlock(m) in this step without being the owner of
   m, and the call returns. *)
UnlockByNonOwner(t, m) ==
    /\ AtRun(t)
    /\ mutex[m].owner # t
    /\ last'.ev = "mutex_unlock" /\ last'.task = t /\ last'.obj = m

(* C27: rtos_mutex_unlock called by a task that is not the owner of the
   mutex (the mutex may be unlocked) returns InvalidState and leaves the
   owner, the lock_count, the waiting list and every task's priority as
   they were. *)
C27_UnlockByNonOwner ==
    [][\A t \in UserTasks, m \in Mutexes :
          UnlockByNonOwner(t, m) =>
              /\ last'.st = "INVALID_STATE"
              /\ mutex'[m] = mutex[m]
              /\ \A u \in Tasks : tcb'[u].priority = tcb[u].priority
      ]_vars

(* C28: when the owner holds the mutex at the deepest recursion
   (lock_count = 255), a further rtos_mutex_lock by the owner returns the
   General error and leaves owner and lock_count as they were. *)
C28_RecursionLimit ==
    [][\A t \in UserTasks, m \in Mutexes :
          ( /\ AtRun(t)
            /\ mutex[m].owner = t
            /\ mutex[m].lock_count = MUTEX_MAX_RECURSION
            /\ last'.ev = "mutex_lock" /\ last'.task = t /\ last'.obj = m )
          => /\ last'.st = "GENERAL"
             /\ mutex'[m].owner = t
             /\ mutex'[m].lock_count = MUTEX_MAX_RECURSION
      ]_vars

(* The owner has asked for the mutex once more at the deepest recursion and
   has been refused. *)
C28_Witness ==
    \E t \in UserTasks, m \in Mutexes :
        /\ last = Ret("mutex_lock", t, m, "GENERAL")
        /\ mutex[m].owner = t
        /\ mutex[m].lock_count = MUTEX_MAX_RECURSION

(* C29: after rtos_task_create has succeeded, stack_base is the bottom of
   the block allocated for the task's stack, the initial stack pointer lies
   between stack_base and stack_top, and the canary word (the four bytes at
   stack_base) lies inside that block. *)
C29_CanaryInOwnStack ==
    \A t \in UserTasks, i \in Tasks :
        last = Ret("task_create", t, i, "SUCCESS") =>
            /\ tcb[i].stack_base = tcb[i].stack_block
            /\ tcb[i].stack_base <= tcb[i].stack_pointer
            /\ tcb[i].stack_pointer <= tcb[i].stack_top
            /\ tcb[i].stack_block <= tcb[i].stack_base
            /\ tcb[i].stack_base + 4 <= tcb[i].stack_block + tcb[i].stack_size

(* Task t's call rtos_task_resume(i) passes from its state check to
   rtos_kernel_task_ready(i) in this step. *)
ResumeActs(t, i) ==
    /\ ctx[t].pc = "ready" /\ ctx[t].obj = i
    /\ ctx'[t].pc # "ready"

OffSchedulerLists(i) == ~InReadyList(i) /\ i \notin SeqSet(DelayedWalk)

(* C30: a Suspended task is in neither the ready list nor the delayed list,
   is not dispatched, and stays Suspended until rtos_task_resume acts on it;
   rtos_task_resume acts only on a task that is Suspended and leaves it Ready
   and exactly once in the ready list of its priority (and in no other
   list); a call that returns RTOS_ERROR_INVALID_STATE changes nothing. *)
C30_SuspendResume ==
    [][/\ \A i \in Tasks :
             tcb'[i].used /\ tcb'[i].state = "SUSPENDED"
                 => (OffSchedulerLists(i))'
       /\ \A i \in Tasks :
             tcb[i].used /\ tcb[i].state = "SUSPENDED"
                 => /\ current_task # i => current_task' # i
                    /\ tcb'[i].state # "SUSPENDED"
                           => \E t \in UserTasks : ResumeActs(t, i)
       /\ \A t \in UserTasks, i \in Tasks, p \in Priorities :
             ResumeActs(t, i) /\ p = tcb'[i].priority
                 => /\ tcb[i].state = "SUSPENDED"
                    /\ tcb'[i].state = "READY"
                    /\ (i \in SeqSet(ReadyWalk(p)) /\ NoRepeat(ReadyWalk(p)))'
                    /\ (i \notin SeqSet(DelayedWalk))'
                    /\ \A q \in Priorities \ {p} :
                           (i \notin SeqSet(ReadyWalk(q)))'
       /\ \A t \in UserTasks, i \in Tasks :
             last' = Ret("task_resume", t, i, "INVALID_STATE")
                 => /\ tcb' = tcb /\ ready_lists' = ready_lists
                    /\ ready_priorities' = ready_priorities
                    /\ delayed_list' = delayed_list
    ]_vars

(* The active-timer list, from its head. *)
ActiveTimers == TimerWalk(timer, g_active_timers, Cardinality(Timers) + 1)

(* The last two calls of the timer API were rtos_timer_start(tm) and
   rtos_timer_stop(tm), with no tick in between. *)
StoppedAfterStart(tm) ==
    /\ last.ev = "timer_stop" /\ last.obj = tm
    /\ timer[tm].before # {}

(* C31: rtos_timer_start(t) followed by rtos_timer_stop(t), with no expiry
   in between, leaves the active-timer list (members and order) as it was
   just before the start, whatever the list held. *)
C31_StartStopRoundTrip ==
    \A tm \in Timers :
        StoppedAfterStart(tm) => timer[tm].before = {ActiveTimers}

(* C31, amended: the same for a timer that was not in the active-timer list
   before the start. *)
C31_StartStopOfUnlinkedTimer ==
    \A tm \in Timers :
        ( /\ StoppedAfterStart(tm)
          /\ \A before \in timer[tm].before : tm \notin SeqSet(before) )
        => timer[tm].before = {ActiveTimers}

(* A timer has been started and stopped while another timer was running. *)
C31_Witness ==
    \E tm \in Timers :
        /\ StoppedAfterStart(tm)
        /\ \A before \in timer[tm].before :
               tm \notin SeqSet(before) /\ before # <<>>
        /\ ~timer[tm].active
        /\ ActiveTimers # <<>>


(* ------------------------------ claim C32 ------------------------------ *)

(* A step of PendSV_Handler: the only step that clears the pending bit. *)
SwitchStep == pendsv /\ ~pendsv' /\ ~hung'

(* The tasks that are Ready after the switch were Ready when pick_next
   chose: the task chosen is the only one whose state the rest of
   rtos_kernel_switch_context changes. *)
ReadyAbovePicked ==
    {i \in Tasks : /\ tcb'[i].state = "READY"
                   /\ current_task' # NULL
                   /\ tcb'[i].priority > tcb'[current_task'].priority}

(* C32: under preemptive static priority the task that pick_next returns
   to rtos_kernel_switch_context has a current priority, inherited priority
   included, that is maximal among the tasks in state Ready: no task that
   is Ready has a higher current priority than the task dispatched.  (The
   claim also orders the Ready tasks of equal priority by their entry into
   the ready list; the part stated here is the part the code fails.) *)
C32_PickNextMaximal == [][SwitchStep => ReadyAbovePicked = {}]_vars


(* ------------------------------ claim C33 ------------------------------ *)

(* C33: in the preemptive static-priority scheduler, at every
   critical-section boundary, bit p of the ready bitmask is set if and only
   if the FIFO of priority p is not empty, and every task linked in the FIFO
   of priority p has current priority p; this also after priority
   inheritance raised, or an unlock restored, the priority of a task that is
   in the ready list, and after that task was removed from the ready list. *)
C33_BitmaskMatchesFifos ==
    (AtBoundary /\ rtos_scheduler_type = "PREEMPTIVE_SP") =>
        \A p \in Priorities :
            /\ (p \in ready_priorities) <=> (ready_lists[p] # NULL)
            /\ \A i \in SeqSet(ReadyWalk(p)) : tcb[i].priority = p


(* ------------------------------ claim C34 ------------------------------ *)

(* C34: whenever rtos_kernel_switch_context runs, that is in every state in
   which PendSV_Handler is about to be taken, the outgoing current task is
   not a member of a ready list, also when a tick fired between the
   critical section of rtos_delay_ticks or rtos_kernel_task_block and the
   pended switch and woke that task; the switch therefore never links the
   outgoing task a second time. *)
C34_OutgoingNotInReadyList ==
    (AtBoundary /\ pendsv /\ current_task # NULL) =>
        ~InReadyList(current_task)


(* ------------------------------ claim C35 ------------------------------ *)

(* Task t sleeps in the delayed list inside a timed wait although a peer
   has taken it off the wait list of its call and no
   rtos_kernel_task_unblock for it is still to come. *)
SleepsAfterGrant(t) ==
    /\ ctx[t].op \in WaitOps /\ ctx[t].pc \in {"yield", "after"}
    /\ tcb[t].state = "BLOCKED"
    /\ t \in SeqSet(DelayedWalk)
    /\ WaitListsOf(t) = {}
    /\ \A u \in Tasks : ~(ctx[u].pc = "unblock" /\ ctx[u].wk = t)

(* C35: if a peer grants a timed waiter its request after the waiter has
   put itself on the wait list and left the critical section, but before
   its rtos_kernel_task_block takes effect, the waiter does not go to
   sleep: a task that a peer has removed from a wait list is never left
   Blocked in the delayed list, waiting out the timeout of that call. *)
C35_GrantedWaiterDoesNotSleep ==
    AtBoundary => \A t \in Tasks : ~SleepsAfterGrant(t)


(* ------------------------------ claim C36 ------------------------------ *)

(* The round-robin discipline at work: the kernel as rtos_init leaves it
   once rtos_scheduler_init has installed round_robin_scheduler
   (scheduler.c:69-79 with interface = &round_robin_scheduler, then
   round_robin_init), the idle task and two tasks of priority 2 as
   tests/scheduler/test_scheduler_rr.c creates them.  g_scheduler_registry as it stands
   does not hold that vtable (claim C19), so no call of rtos_init reaches
   this state; it is the state in which the functions of round_robin.c
   run when they run at all. *)
RoundRobinBoot(prios) ==
    LET k1 == round_robin_init(
                  [K0 EXCEPT !.rtos_scheduler_type = "ROUND_ROBIN",
                             !.g_scheduler_instance =
                                 [type |-> "ROUND_ROBIN",
                                  initialized |-> TRUE]])
        k2 == [rtos_task_create(k1, 0, RTOS_IDLE_TASK_PRIORITY)
               EXCEPT !.kstate = "READY"]
    IN rtos_start_scheduler(CreateAll(k2, prios))

RoundRobinPrios == <<2, 2>>

InitRoundRobin ==
    InitFrom(RoundRobinBoot(RoundRobinPrios), 0,
             rtos_semaphore_init(0, 1), InitQueue)

(* ready_count drifts upwards when a task is linked twice; the runs are
   followed as long as it does not exceed the number of tasks. *)
Counted == g_round_robin_data.ready_count <= Cardinality(Tasks)

(* The tasks delay and yield; they signal a semaphore that the second one
   waits for. *)
NextRoundRobin ==
    \/ Counted /\ PendSV
    \/ Counted /\ Tick
    \/ \E t \in UserTasks : Counted /\ Yield(t)
    \/ \E t \in UserTasks, ticks \in 1 .. MaxDelay :
           Counted /\ DelayTicks(t, ticks)
    \/ \E t \in Waiters : Counted /\ SemWait(t, RTOS_SEM_MAX_WAIT)
    \/ \E t \in Signallers : Counted /\ Signal(t)
    \/ \E t \in UserTasks : Counted /\ SemWaitAfter(t)
    \/ \E t \in UserTasks : Counted /\ YieldAfterCritical(t)
    \/ \E t \in UserTasks : Counted /\ UnblockWaiter(t)
    \/ \E t \in UserTasks : Counted /\ ReturnAfterUnblock(t)

SpecRoundRobin == InitRoundRobin /\ [][NextRoundRobin]_vars

slice_remaining == g_round_robin_data.slice_remaining

(* Each selection of a task sets the slice again. *)
SliceResetOnSelection ==
    SwitchStep => slice_remaining' = RTOS_TIME_SLICE_TICKS

(* The slice is counted down by the tick, by one, and by nothing else. *)
SliceCountsTicks ==
    /\ (tick_count' # tick_count /\ ~pendsv /\ ~hung' /\ slice_remaining > 0)
           => slice_remaining' = slice_remaining - 1
    /\ (slice_remaining' < slice_remaining) => tick_count' # tick_count

(* C36: under round-robin, each time a task is selected to run the slice
   counter is set to RTOS_TIME_SLICE_TICKS, also when the task before it
   blocked instead of yielding, and the counter goes down exactly once per
   tick and not through the other calls of should_preempt, such as the one
   made when a task is unblocked. *)
C36_SlicePerSelectionAndTick ==
    [][(rtos_scheduler_type = "ROUND_ROBIN")
           => SliceResetOnSelection /\ SliceCountsTicks]_vars



(* ------------------------------ claim C37 ------------------------------ *)

(* The tasks on the waiting lists of the mutexes that task t owns. *)
WaitersOn(t) ==
    {w \in Tasks : \E m \in Mutexes :
        /\ mutex[m].owner = t
        /\ w \in SeqSet(WaitListOf(<<"mutex", m>>))}

(* The tasks that wait for t directly or through a chain of owners. *)
RECURSIVE ChainWaiters(_, _)
ChainWaiters(S, depth) ==
    LET more == S \cup UNION {WaitersOn(w) : w \in S}
    IN IF depth = 0 \/ more = S THEN S ELSE ChainWaiters(more, depth - 1)

BoostLimit(t) ==
    SetMax({tcb[t].base_priority}
               \cup {tcb[w].priority :
                       w \in ChainWaiters(WaitersOn(t), Cardinality(Tasks))})

(* C37: a task's current priority exceeds its base priority only while
   some task is blocked, directly or through a chain of owners, on a mutex
   it owns: at every critical-section boundary, also after the waiter that
   caused a boost has timed out and left the waiting list, the priority of
   a task is at most the maximum of its base priority and the priorities
   of the tasks that still wait on the mutexes it owns. *)
C37_BoostOnlyWhileWaitedFor ==
    AtBoundary => \A t \in UsedTasks : tcb[t].priority <= BoostLimit(t)


(* The number of times timer tm is linked in the active-timer list. *)
TimesLinked(tm) ==
    Cardinality({i \in DOMAIN ActiveTimers : ActiveTimers[i] = tm})

(* C38: outside rtos_timer_tick, a timer is linked in the active-timer list,
   exactly once, if and only if its active flag is true, whatever timer API
   calls its callbacks made; a timer stopped from its own callback is not in
   the list afterwards. *)
C38_LinkedIffActive ==
    ~hung => \A tm \in Timers :
                 /\ TimesLinked(tm) <= 1
                 /\ (TimesLinked(tm) = 1) <=> timer[tm].active


(* The delayed list of the installed discipline, walked from its head over
   the `next` links of T. *)
RECURSIVE ListFrom(_, _, _)
ListFrom(T, cur, fuel) ==
    IF cur = NULL \/ fuel = 0 THEN <<>>
    ELSE <<cur>> \o ListFrom(T, T[cur].next, fuel - 1)

DelayedListOf(k) ==
    ListFrom(k.tcb,
             IF Cooperative(k) THEN k.g_cooperative_data.delayed_list
             ELSE IF RoundRobin(k) THEN k.g_round_robin_data.delayed_list
             ELSE k.delayed_list,
             Cardinality(Tasks) + 1)

(* This step is rtos_kernel_task_unblock(w) of a Blocked task w. *)
UnblockStepOf(w) ==
    /\ tcb[w].state = "BLOCKED"
    /\ \E t \in Tasks : /\ ctx[t].pc = "unblock" /\ ctx[t].wk = w
                        /\ current_task = t
                        /\ ctx'[t].pc = "ret"

(* This step is rtos_task_suspend(w) of a Blocked task w. *)
SuspendStepOf(w) ==
    /\ tcb[w].state = "BLOCKED"
    /\ tcb'[w].state = "SUSPENDED"
    /\ last'.ev = "task_suspend" /\ last'.obj = w

(* C39: under every discipline, unblocking or suspending a task that is not
   in the delayed list leaves the members and the order of the delayed list
   unchanged. *)
C39_DelayedListFrame ==
    [][\A w \in Tasks :
          ( /\ UnblockStepOf(w) \/ SuspendStepOf(w)
            /\ w \notin SeqSet(DelayedListOf(K))
            /\ ~hung' )
          => DelayedListOf(K)' = DelayedListOf(K)
      ]_vars


(* This step is the critical section of rtos_mutex_lock(m, ...) in which
   task t finds mutex m owned by another task and queues up for it. *)
LockQueuesUp(t, m) ==
    /\ current_task = t /\ ctx[t].pc = "run"
    /\ ctx'[t].op = "mutex_lock" /\ ctx'[t].obj = m
    /\ ctx'[t].pc \in {"yield", "block"}

(* The owners visited by the walk that task t starts at mutex m. *)
VisitedFrom(t, m) == PipVisited(tcb, mutex, mutex[m].owner, 0)

(* C40: the priority-inheritance walk of a task that blocks on a mutex
   visits at most 16 owners, whatever the wait-for graph, a cyclic one
   included, and changes no task's priority other than raising owners on
   the visited chain. *)
C40_PipWalkBounded ==
    [][\A t \in UserTasks, m \in Mutexes :
          LockQueuesUp(t, m)
          => /\ Len(VisitedFrom(t, m)) <= PIP_MAX_DEPTH
             /\ \A i \in Tasks :
                    tcb'[i].priority # tcb[i].priority
                    => /\ i \in SeqSet(VisitedFrom(t, m))
                       /\ \E x \in Mutexes : mutex[x].owner = i
                       /\ tcb'[i].priority > tcb[i].priority
      ]_vars

(* Task a waits for the mutex that b owns. *)
WaitsFor(a, b) ==
    /\ tcb[a].state = "BLOCKED" /\ tcb[a].blocked_on_type = "MUTEX"
    /\ tcb[a].blocked_on \in Mutexes
    /\ mutex[tcb[a].blocked_on].owner = b

(* A task has just queued up for a mutex whose owners form a cycle: the walk
   went round it until the depth guard stopped it, and raised both owners. *)
C40_Witness ==
    \E t \in UserTasks : \E a, b \in UserTasks \ {t} :
        /\ a # b /\ WaitsFor(a, b) /\ WaitsFor(b, a)
        /\ ctx[t].op = "mutex_lock" /\ ctx[t].pc \in {"yield", "block"}
        /\ current_task = t /\ ~hung
        /\ mutex[ctx[t].obj].owner = a
        /\ Len(VisitedFrom(t, ctx[t].obj)) = PIP_MAX_DEPTH
        /\ tcb[a].priority = tcb[t].priority
        /\ tcb[b].priority = tcb[t].priority
        /\ tcb[a].priority > tcb[a].base_priority
        /\ tcb[b].priority > tcb[b].base_priority

====
